---------------------------- MODULE Spec2Model ----------------------------
(***************************************************************************)
(* Document verification: MRZ decoder, validation engine, eligibility       *)
(* engine, recommendation generator, OCR text analysis and the verify      *)
(* request handler.                                                        *)
(*                                                                         *)
(* JavaScript strings are TLA+ strings (Len, SubSeq and \o act on them     *)
(* character by character).  A JavaScript number that may be NaN is a      *)
(* record [nan, n].  A Date is a record [valid, y, m, d, t] in local time, *)
(* t being the milliseconds past midnight (parseISO of a date-only string  *)
(* gives t = 0); an Invalid Date has valid = FALSE.                        *)
(***************************************************************************)
EXTENDS Integers, Sequences, FiniteSets, TLC

VARIABLES
    pc,                 \* position of the function under evaluation: "call" | "done";
                        \* of the verify handler: "request" | "ocr" | "done"
    validationChecks,   \* ValidationCheck[] (validateDocument's result, generateRecommendations' input)
    eligibility,        \* EligibilityResult
    overallConfidence,  \* number passed to generateRecommendations
    recommendations,    \* string[] returned by generateRecommendations
    doc,                \* ExtractedDocument
    applicant,          \* ApplicantData
    policy,             \* EligibilityPolicy
    now,                \* the value of new Date() during the call
    mrzLines,           \* string[] handed to parseMRZ
    mrzData,            \* MRZData | null returned by parseMRZ
    input,              \* data string of calculateCheckDigit / validateCheckDigit
    checkDigit,         \* check character of validateCheckDigit
    calculated,         \* number returned by calculateCheckDigit
    checkValid,         \* boolean returned by validateCheckDigit
    dateArg,            \* string handed to parseDate
    isoDate,            \* string returned by parseDate
    ocrText,            \* the text performOCR resolved to
    captures,           \* per field, the result of text.match for each of its patterns, in order
    request,            \* body of the verify request
    response,           \* response of the verify handler: status and body
    summary,            \* string returned by generateSummary
    invoked             \* the functions the handler has called so far, in call order

dateVars == <<dateArg, isoDate>>

ocrVars == <<ocrText, captures>>

httpVars == <<request, response, summary, invoked>>

vars == <<pc, validationChecks, eligibility, overallConfidence, recommendations,
          doc, applicant, policy, now, mrzLines, mrzData,
          input, checkDigit, calculated, checkValid, dateVars, ocrVars, httpVars>>

-----------------------------------------------------------------------------
(* JavaScript values *)

\* undefined / null: an absent optional property or a null result
Undefined == [undefined |-> TRUE]

IsUndefined(v) == v = Undefined

\* a number that is not NaN
Num(n) == [nan |-> FALSE, n |-> n]

NaN == [nan |-> TRUE, n |-> 0]

\* a < b on numbers: false as soon as one side is NaN
NumLt(a, b) == ~a.nan /\ ~b.nan /\ a.n < b.n

NumGt(a, b) == ~a.nan /\ ~b.nan /\ a.n > b.n

\* `${x}` of a number
NumToString(a) == IF a.nan THEN "NaN" ELSE ToString(a.n)

-----------------------------------------------------------------------------
(* Strings *)

Digits == {"0", "1", "2", "3", "4", "5", "6", "7", "8", "9"}

UpperLetters == "ABCDEFGHIJKLMNOPQRSTUVWXYZ"

LowerLetters == "abcdefghijklmnopqrstuvwxyz"

CharAt(s, i) == SubSeq(s, i, i)

CharsOf(s) == {CharAt(s, i) : i \in 1..Len(s)}

Upper == CharsOf(UpperLetters)

Lower == CharsOf(LowerLetters)

DigitValue(c) == CHOOSE n \in 0..9 : ToString(n) = c

\* parseInt of a string of decimal digits (NaN when it does not start with one)
RECURSIVE DigitsToInt(_)
DigitsToInt(s) ==
    IF Len(s) = 0 THEN 0
    ELSE 10 * DigitsToInt(SubSeq(s, 1, Len(s) - 1)) + DigitValue(CharAt(s, Len(s)))

RECURSIVE LeadingDigits(_)
LeadingDigits(s) ==
    IF Len(s) = 0 \/ CharAt(s, 1) \notin Digits THEN ""
    ELSE CharAt(s, 1) \o LeadingDigits(SubSeq(s, 2, Len(s)))

parseInt(s) ==
    LET d == LeadingDigits(s)
    IN IF Len(d) = 0 THEN NaN ELSE Num(DigitsToInt(d))

\* Array.prototype.filter on a sequence of checks, by status
FilterStatus(seq, status) == SelectSeq(seq, LAMBDA c : c.status = status)

\* Array.prototype.join
RECURSIVE Join(_, _)
Join(seq, sep) ==
    IF Len(seq) = 0 THEN ""
    ELSE IF Len(seq) = 1 THEN seq[1]
    ELSE seq[1] \o sep \o Join(Tail(seq), sep)

\* String.prototype.includes
Includes(s, sub) ==
    \E i \in 1..(Len(s) - Len(sub) + 1) : SubSeq(s, i, i + Len(sub) - 1) = sub

-----------------------------------------------------------------------------
(* Dates (date-fns parseISO, isBefore, differenceInMonths, differenceInYears) *)

InvalidDate == [valid |-> FALSE, y |-> 0, m |-> 0, d |-> 0, t |-> 0]

Date(y, m, d, t) == [valid |-> TRUE, y |-> y, m |-> m, d |-> d, t |-> t]

IsLeapYear(y) == (y % 4 = 0 /\ y % 100 # 0) \/ y % 400 = 0

DaysInMonth(y, m) ==
    IF m = 2 THEN (IF IsLeapYear(y) THEN 29 ELSE 28)
    ELSE IF m \in {4, 6, 9, 11} THEN 30 ELSE 31

AllDigits(s) == \A i \in 1..Len(s) : CharAt(s, i) \in Digits

\* The extended calendar-date form YYYY-MM-DD, validated; any other text is an
\* Invalid Date.  parseISO returns the Invalid Date; it never throws on a string.
parseISO(s) ==
    IF /\ Len(s) = 10
       /\ AllDigits(SubSeq(s, 1, 4)) /\ CharAt(s, 5) = "-"
       /\ AllDigits(SubSeq(s, 6, 7)) /\ CharAt(s, 8) = "-"
       /\ AllDigits(SubSeq(s, 9, 10))
    THEN LET y == DigitsToInt(SubSeq(s, 1, 4))
             m == DigitsToInt(SubSeq(s, 6, 7))
             d == DigitsToInt(SubSeq(s, 9, 10))
         IN IF m \in 1..12 /\ d \in 1..DaysInMonth(y, m)
            THEN Date(y, m, d, 0)
            ELSE InvalidDate
    ELSE InvalidDate

\* whether parseISO(s) throws: only a missing argument makes it throw
parseISOThrows(s) == FALSE

\* a strictly earlier than b, both valid
Earlier(a, b) ==
    \/ a.y < b.y
    \/ a.y = b.y /\ a.m < b.m
    \/ a.y = b.y /\ a.m = b.m /\ a.d < b.d
    \/ a.y = b.y /\ a.m = b.m /\ a.d = b.d /\ a.t < b.t

\* compareAsc of two valid dates
compareAsc(a, b) == IF Earlier(a, b) THEN -1 ELSE IF Earlier(b, a) THEN 1 ELSE 0

\* getTime() comparison: false when either date is invalid
isBefore(a, b) == a.valid /\ b.valid /\ Earlier(a, b)

Abs(n) == IF n < 0 THEN -n ELSE n

\* Full months between two dates, truncated toward zero; NaN on an Invalid Date.
\* Days of month are at most 27 here, where date-fns applies no end-of-month
\* adjustment and setMonth never rolls over.
differenceInMonths(left, right) ==
    IF ~left.valid \/ ~right.valid THEN NaN
    ELSE LET sign == compareAsc(left, right)
             difference == Abs((left.y - right.y) * 12 + (left.m - right.m))
             shifted == Date(right.y, right.m, left.d, left.t)
             isLastMonthNotFull == compareAsc(shifted, right) = -sign
         IN IF difference < 1 THEN Num(0)
            ELSE Num(sign * (difference - (IF isLastMonthNotFull THEN 1 ELSE 0)))

\* Full years between two dates, truncated toward zero; NaN on an Invalid Date.
differenceInYears(left, right) ==
    IF ~left.valid \/ ~right.valid THEN NaN
    ELSE LET sign == compareAsc(left, right)
             difference == Abs(left.y - right.y)
             l == Date(1584, left.m, left.d, left.t)
             r == Date(1584, right.m, right.d, right.t)
             isLastYearNotFull == compareAsc(l, r) = -sign
         IN Num(sign * (difference - (IF isLastYearNotFull THEN 1 ELSE 0)))

-----------------------------------------------------------------------------
(* Validation engine *)

Check(field, status, message, confidence) ==
    [field |-> field, status |-> status, message |-> message, confidence |-> confidence]

Min(a, b) == IF a < b THEN a ELSE b

\* /^[A-Z0-9]{6,12}$/
IsDocumentNumber(s) ==
    Len(s) \in 6..12 /\ \A i \in 1..Len(s) : CharAt(s, i) \in Upper \cup Digits

\* /^[A-Z]{3}$/
IsNationalityCode(s) == Len(s) = 3 /\ \A i \in 1..Len(s) : CharAt(s, i) \in Upper

ToLowerChar(c) ==
    IF c \in Upper
    THEN CharAt(LowerLetters, CHOOSE i \in 1..Len(UpperLetters) : CharAt(UpperLetters, i) = c)
    ELSE c

\* s.toLowerCase().replace(/[^a-z]/g, '')
RECURSIVE normalize(_)
normalize(s) ==
    IF Len(s) = 0 THEN ""
    ELSE LET c == ToLowerChar(CharAt(s, 1))
         IN (IF c \in Lower THEN c ELSE "") \o normalize(SubSeq(s, 2, Len(s)))

\* compareStrings dividing the matches by the length of the shorter string
compareStringsByShorter(a, b) ==
    LET str1 == normalize(a)
        str2 == normalize(b)
        longer == IF Len(str1) > Len(str2) THEN str1 ELSE str2
        shorter == IF Len(str1) > Len(str2) THEN str2 ELSE str1
        matches == Cardinality({i \in 1..Len(shorter) : CharAt(longer, i) = CharAt(shorter, i)})
    IN IF str1 = str2 THEN [num |-> 1, den |-> 1]
       ELSE IF Includes(longer, shorter) THEN [num |-> 9, den |-> 10]
       ELSE [num |-> matches, den |-> Len(shorter)]

\* The similarity as an exact fraction num/den (1.0 = 1/1, 0.9 = 9/10).
compareStrings(a, b) ==
    LET str1 == normalize(a)
        str2 == normalize(b)
        longer == IF Len(str1) > Len(str2) THEN str1 ELSE str2
        shorter == IF Len(str1) > Len(str2) THEN str2 ELSE str1
        matches == Cardinality({i \in 1..Len(shorter) : CharAt(longer, i) = CharAt(shorter, i)})
    IN IF str1 = str2 THEN [num |-> 1, den |-> 1]
       ELSE IF Includes(longer, shorter) THEN [num |-> 9, den |-> 10]
       ELSE [num |-> matches, den |-> Len(longer)]

\* similarity > 0.8
SimilarityAbove08(sim) == 5 * sim.num > 4 * sim.den

\* Math.round(similarity * 100)
SimilarityPercent(sim) == (200 * sim.num + sim.den) \div (2 * sim.den)

HasMRZ(d) == ~IsUndefined(d.mrzData)

\* validateMRZConsistency cross-checking the names before the document number
validateMRZConsistencyNamesFirst(d) ==
    IF ~HasMRZ(d) THEN <<>>
    ELSE
      LET mrz == d.mrzData
          similarity == compareStrings(d.lastName.value, mrz.lastName.value)
          match == d.documentNumber.value = mrz.documentNumber.value
      IN <<Check("mrzChecksum",
                 IF mrz.checksumValid THEN "pass" ELSE "fail",
                 IF mrz.checksumValid THEN "MRZ checksums valid" ELSE "MRZ checksums failed",
                 IF mrz.checksumValid THEN 95 ELSE 60)>>
         \o (IF d.lastName.value # "" /\ mrz.lastName.value # ""
             THEN <<Check("nameMatch",
                          IF SimilarityAbove08(similarity) THEN "pass" ELSE "warning",
                          IF SimilarityAbove08(similarity) THEN "Names match MRZ"
                                                           ELSE "Name mismatch with MRZ",
                          SimilarityPercent(similarity))>>
             ELSE <<>>)
         \o (IF d.documentNumber.value # "" /\ mrz.documentNumber.value # ""
             THEN <<Check("documentNumberMatch",
                          IF match THEN "pass" ELSE "fail",
                          IF match THEN "Document number matches MRZ"
                                   ELSE "Document number does not match MRZ",
                          90)>>
             ELSE <<>>)

validateMRZConsistency(d) ==
    IF ~HasMRZ(d) THEN <<>>
    ELSE
      LET mrz == d.mrzData
          similarity == compareStrings(d.lastName.value, mrz.lastName.value)
          match == d.documentNumber.value = mrz.documentNumber.value
      IN <<Check("mrzChecksum",
                 IF mrz.checksumValid THEN "pass" ELSE "fail",
                 IF mrz.checksumValid THEN "MRZ checksums valid" ELSE "MRZ checksums failed",
                 IF mrz.checksumValid THEN 95 ELSE 60)>>
         \o (IF d.documentNumber.value # "" /\ mrz.documentNumber.value # ""
             THEN <<Check("documentNumberMatch",
                          IF match THEN "pass" ELSE "fail",
                          IF match THEN "Document number matches MRZ"
                                   ELSE "Document number does not match MRZ",
                          90)>>
             ELSE <<>>)
         \o (IF d.lastName.value # "" /\ mrz.lastName.value # ""
             THEN <<Check("nameMatch",
                          IF SimilarityAbove08(similarity) THEN "pass" ELSE "warning",
                          IF SimilarityAbove08(similarity) THEN "Names match MRZ"
                                                           ELSE "Name mismatch with MRZ",
                          SimilarityPercent(similarity))>>
             ELSE <<>>)

\* expiryChecks where the warning takes the place of the pass check
expiryChecksWarningInstead(d, t) ==
    IF d.expiryDate.value = "" THEN <<>>
    ELSE IF parseISOThrows(d.expiryDate.value)
    THEN <<Check("expiryDate", "fail", "Invalid expiry date format", 50)>>
    ELSE
      LET expiry == parseISO(d.expiryDate.value)
          isExpired == isBefore(expiry, t)
          monthsUntilExpiry == differenceInMonths(expiry, t)
      IN IF ~isExpired /\ NumLt(monthsUntilExpiry, Num(6))
         THEN <<Check("expiryDate", "warning",
                      "Document expires in " \o NumToString(monthsUntilExpiry) \o " months",
                      d.expiryDate.confidence)>>
         ELSE <<Check("expiryDate",
                      IF isExpired THEN "fail" ELSE "pass",
                      IF isExpired THEN "Document has expired" ELSE "Document is valid",
                      d.expiryDate.confidence)>>

\* the checks of the "Check expiry date" block
expiryChecks(d, t) ==
    IF d.expiryDate.value = "" THEN <<>>
    ELSE IF parseISOThrows(d.expiryDate.value)
    THEN <<Check("expiryDate", "fail", "Invalid expiry date format", 50)>>
    ELSE
      LET expiry == parseISO(d.expiryDate.value)
          isExpired == isBefore(expiry, t)
          monthsUntilExpiry == differenceInMonths(expiry, t)
      IN <<Check("expiryDate",
                 IF isExpired THEN "fail" ELSE "pass",
                 IF isExpired THEN "Document has expired" ELSE "Document is valid",
                 d.expiryDate.confidence)>>
         \o (IF ~isExpired /\ NumLt(monthsUntilExpiry, Num(6))
             THEN <<Check("expiryDate", "warning",
                          "Document expires in " \o NumToString(monthsUntilExpiry) \o " months",
                          d.expiryDate.confidence)>>
             ELSE <<>>)

\* the checks of the "Check date of birth" block
birthChecks(d, t) ==
    IF d.dateOfBirth.value = "" THEN <<>>
    ELSE IF parseISOThrows(d.dateOfBirth.value)
    THEN <<Check("dateOfBirth", "fail", "Invalid date of birth format", 50)>>
    ELSE
      LET dob == parseISO(d.dateOfBirth.value)
          age == differenceInYears(t, dob)
      IN IF NumLt(age, Num(0)) \/ NumGt(age, Num(120))
         THEN <<Check("dateOfBirth", "fail", "Date of birth is invalid",
                      d.dateOfBirth.confidence)>>
         ELSE <<Check("dateOfBirth", "pass", "Age: " \o NumToString(age) \o " years",
                      d.dateOfBirth.confidence)>>

validateDocument(d, t) ==
    LET numberOk == IsDocumentNumber(d.documentNumber.value)
        hasValidNames == Len(d.firstName.value) > 1 /\ Len(d.lastName.value) > 1
        natOk == IsNationalityCode(d.nationality.value)
    IN (IF d.documentNumber.value # ""
        THEN <<Check("documentNumber",
                     IF numberOk THEN "pass" ELSE "fail",
                     IF numberOk THEN "Document number format valid"
                                 ELSE "Invalid document number format",
                     d.documentNumber.confidence)>>
        ELSE <<>>)
       \o expiryChecks(d, t)
       \o birthChecks(d, t)
       \o (IF d.firstName.value # "" /\ d.lastName.value # ""
           THEN <<Check("name",
                        IF hasValidNames THEN "pass" ELSE "warning",
                        IF hasValidNames THEN "Name fields extracted"
                                         ELSE "Name fields may be incomplete",
                        Min(d.firstName.confidence, d.lastName.confidence))>>
           ELSE <<>>)
       \o (IF d.nationality.value # ""
           THEN <<Check("nationality",
                        IF natOk THEN "pass" ELSE "warning",
                        IF natOk THEN "Nationality code valid"
                                 ELSE "Nationality code format unusual",
                        d.nationality.confidence)>>
           ELSE <<>>)
       \o (IF HasMRZ(d) THEN validateMRZConsistency(d) ELSE <<>>)

-----------------------------------------------------------------------------
(* Eligibility engine *)

\* An optional array property is Undefined or [items |-> the array]; an optional
\* number property is Undefined or Num(n).
ArrayIncludes(arr, v) == \E i \in 1..Len(arr.items) : arr.items[i] = v

\* truthiness of an optional number: defined, not 0, not NaN
TruthyNumber(v) == ~IsUndefined(v) /\ ~v.nan /\ v.n # 0

nationalityIssue(d, a) ==
    "Nationality " \o d.nationality.value \o " is not eligible for " \o a.visaType

\* validityIssues counting calendar months (differenceInCalendarMonths) instead
\* of full months
validityIssuesCalendarMonths(d, p, t) ==
    IF d.expiryDate.value = "" THEN <<>>
    ELSE
      LET expiry == parseISO(d.expiryDate.value)
          monthsValid == IF expiry.valid
                         THEN Num((expiry.y - t.y) * 12 + (expiry.m - t.m))
                         ELSE NaN
      IN IF NumLt(monthsValid, Num(p.minPassportValidity))
         THEN <<"Passport must be valid for at least "
                 \o ToString(p.minPassportValidity) \o " months">>
         ELSE <<>>

\* "Check passport validity"
validityIssues(d, p, t) ==
    IF d.expiryDate.value = "" THEN <<>>
    ELSE IF parseISOThrows(d.expiryDate.value)
    THEN <<"Cannot verify passport validity period">>
    ELSE
      LET expiry == parseISO(d.expiryDate.value)
          monthsValid == differenceInMonths(expiry, t)
      IN IF NumLt(monthsValid, Num(p.minPassportValidity))
         THEN <<"Passport must be valid for at least "
                 \o ToString(p.minPassportValidity) \o " months">>
         ELSE <<>>

\* "Check nationality restrictions": the allow-list
allowListIssues(d, a, p) ==
    IF /\ ~IsUndefined(p.allowedNationalities)
       /\ Len(p.allowedNationalities.items) > 0
       /\ ~ArrayIncludes(p.allowedNationalities, d.nationality.value)
    THEN <<nationalityIssue(d, a)>>
    ELSE <<>>

\* blockListIssues as an `else` of the allow-list test
blockListIssuesElse(d, a, p) ==
    IF /\ Len(allowListIssues(d, a, p)) = 0
       /\ ~IsUndefined(p.blockedNationalities)
       /\ ArrayIncludes(p.blockedNationalities, d.nationality.value)
    THEN <<nationalityIssue(d, a)>>
    ELSE <<>>

\* "Check nationality restrictions": the block-list
blockListIssues(d, a, p) ==
    IF /\ ~IsUndefined(p.blockedNationalities)
       /\ ArrayIncludes(p.blockedNationalities, d.nationality.value)
    THEN <<nationalityIssue(d, a)>>
    ELSE <<>>

\* "Check age requirements"
ageIssues(d, p, t) ==
    IF d.dateOfBirth.value = "" THEN <<>>
    ELSE IF parseISOThrows(d.dateOfBirth.value)
    THEN <<"Cannot verify age requirements">>
    ELSE
      LET dob == parseISO(d.dateOfBirth.value)
          age == differenceInYears(t, dob)
      IN (IF TruthyNumber(p.minAge) /\ NumLt(age, p.minAge)
          THEN <<"Applicant must be at least " \o NumToString(p.minAge) \o " years old">>
          ELSE <<>>)
         \o (IF TruthyNumber(p.maxAge) /\ NumGt(age, p.maxAge)
             THEN <<"Applicant must be under " \o NumToString(p.maxAge) \o " years old">>
             ELSE <<>>)

\* mismatchIssues without the test that both numbers are present
mismatchIssuesNoGuard(d, a) ==
    IF a.passportNumber # d.documentNumber.value
    THEN <<"Passport number does not match application">>
    ELSE <<>>

\* "Check data consistency with application"
mismatchIssues(d, a) ==
    IF /\ a.passportNumber # "" /\ d.documentNumber.value # ""
       /\ a.passportNumber # d.documentNumber.value
    THEN <<"Passport number does not match application">>
    ELSE <<>>

\* the issues array at the end of checkEligibility
eligibilityIssues(d, a, p, t) ==
    validityIssues(d, p, t) \o allowListIssues(d, a, p) \o blockListIssues(d, a, p)
      \o ageIssues(d, p, t) \o mismatchIssues(d, a)

\* checkEligibility with a confidence that falls with the number of issues
checkEligibilityByIssueCount(d, a, p, t) ==
    LET issues == eligibilityIssues(d, a, p, t)
        eligible == Len(issues) = 0
    IN [eligible |-> eligible,
        reason |-> IF eligible THEN "All eligibility requirements met" ELSE Join(issues, "; "),
        confidence |-> IF Len(issues) <= 1 THEN 95 - 10 * Len(issues) ELSE 75]

checkEligibility(d, a, p, t) ==
    LET issues == eligibilityIssues(d, a, p, t)
        eligible == Len(issues) = 0
    IN [eligible |-> eligible,
        reason |-> IF eligible THEN "All eligibility requirements met" ELSE Join(issues, "; "),
        confidence |-> IF eligible THEN 95 ELSE 85]

-----------------------------------------------------------------------------
(* Recommendation generator *)

\* generateRecommendations without the `return` that ends the failures branch
generateRecommendationsNoReturn(checks, elig, confidence) ==
    LET failures == FilterStatus(checks, "fail")
        warnings == FilterStatus(checks, "warning")
        rejected == IF Len(failures) > 0
                    THEN <<"REJECT: Critical validation failures detected">>
                         \o [i \in 1..Len(failures) |->
                               "- Address " \o failures[i].field \o ": " \o failures[i].message]
                    ELSE <<>>
    IN IF ~elig.eligible
       THEN rejected \o <<"REJECT: Applicant does not meet eligibility requirements",
                          "- " \o elig.reason>>
       ELSE IF confidence < 70
       THEN rejected \o <<"MANUAL REVIEW: Low confidence in document extraction",
                          "- Request higher quality document scan",
                          "- Verify extracted information manually">>
       ELSE IF Len(warnings) > 0
       THEN rejected \o <<"MANUAL REVIEW: Warnings detected">>
            \o [i \in 1..Len(warnings) |->
                  "- Review " \o warnings[i].field \o ": " \o warnings[i].message]
       ELSE IF confidence >= 90
       THEN rejected \o <<"APPROVE: All checks passed with high confidence",
                          "- Proceed with visa application processing">>
       ELSE rejected \o <<"MANUAL REVIEW: Standard verification recommended",
                          "- Verify key details before approval">>

\* generateRecommendations with the high-confidence test ahead of the warning test
generateRecommendationsApproveBeforeWarnings(checks, elig, confidence) ==
    LET failures == FilterStatus(checks, "fail")
        warnings == FilterStatus(checks, "warning")
    IN IF Len(failures) > 0
       THEN <<"REJECT: Critical validation failures detected">>
            \o [i \in 1..Len(failures) |-> "- Address " \o failures[i].field \o ": " \o failures[i].message]
       ELSE IF ~elig.eligible
       THEN <<"REJECT: Applicant does not meet eligibility requirements", "- " \o elig.reason>>
       ELSE IF confidence < 70
       THEN <<"MANUAL REVIEW: Low confidence in document extraction", "- Request higher quality document scan", "- Verify extracted information manually">>
       ELSE IF confidence >= 90
       THEN <<"APPROVE: All checks passed with high confidence", "- Proceed with visa application processing">>
       ELSE IF Len(warnings) > 0
       THEN <<"MANUAL REVIEW: Warnings detected">> \o [i \in 1..Len(warnings) |-> "- Review " \o warnings[i].field \o ": " \o warnings[i].message]
       ELSE <<"MANUAL REVIEW: Standard verification recommended", "- Verify key details before approval">>

generateRecommendations(checks, elig, confidence) ==
    LET failures == FilterStatus(checks, "fail")
        warnings == FilterStatus(checks, "warning")
    IN IF Len(failures) > 0
       THEN <<"REJECT: Critical validation failures detected">>
            \o [i \in 1..Len(failures) |->
                  "- Address " \o failures[i].field \o ": " \o failures[i].message]
       ELSE IF ~elig.eligible
       THEN <<"REJECT: Applicant does not meet eligibility requirements",
              "- " \o elig.reason>>
       ELSE IF confidence < 70
       THEN <<"MANUAL REVIEW: Low confidence in document extraction",
              "- Request higher quality document scan",
              "- Verify extracted information manually">>
       ELSE IF Len(warnings) > 0
       THEN <<"MANUAL REVIEW: Warnings detected">>
            \o [i \in 1..Len(warnings) |->
                  "- Review " \o warnings[i].field \o ": " \o warnings[i].message]
       ELSE IF confidence >= 90
       THEN <<"APPROVE: All checks passed with high confidence",
              "- Proceed with visa application processing">>
       ELSE <<"MANUAL REVIEW: Standard verification recommended",
              "- Verify key details before approval">>

-----------------------------------------------------------------------------
(* MRZ decoder *)

\* String.prototype.substring(a, b) for 0 <= a <= b: both ends clamped to the length
Substring(s, a, b) ==
    LET lo == Min(a, Len(s))
        hi == Min(b, Len(s))
    IN IF lo >= hi THEN "" ELSE SubSeq(s, lo + 1, hi)

\* charCodeAt(0) of an uppercase letter ("A" is 65)
charCodeAt(c) == 64 + (CHOOSE i \in 1..Len(UpperLetters) : CharAt(UpperLetters, i) = c)

\* the weight cycle with its last two weights exchanged
weightsSwapped == <<7, 1, 3>>

weights == <<7, 3, 1>>

\* the value the loop body gives one character
charValue(c) ==
    IF c = "<" THEN 0
    ELSE IF c \in Digits THEN DigitValue(c)
    ELSE charCodeAt(c) - 55

\* sum after the first k iterations of the loop
RECURSIVE weightedSum(_, _)
weightedSum(data, k) ==
    IF k = 0 THEN 0
    ELSE weightedSum(data, k - 1) + charValue(CharAt(data, k)) * weights[((k - 1) % 3) + 1]

calculateCheckDigit(data) == weightedSum(data, Len(data)) % 10

validateCheckDigit(data, digit) ==
    LET parsed == parseInt(digit)
    IN ~parsed.nan /\ calculateCheckDigit(data) = parsed.n

\* parseDate with the century pivot one year early (year < 40)
parseDatePivot39(dateStr) ==
    IF Len(dateStr) # 6 THEN ""
    ELSE LET year == parseInt(Substring(dateStr, 0, 2))
             month == Substring(dateStr, 2, 4)
             day == Substring(dateStr, 4, 6)
             fullYear == IF year.nan THEN NaN
                         ELSE IF year.n < 40 THEN Num(2000 + year.n) ELSE Num(1900 + year.n)
         IN NumToString(fullYear) \o "-" \o month \o "-" \o day

\* `${fullYear}-${month}-${day}` of a YYMMDD string
parseDate(dateStr) ==
    IF Len(dateStr) # 6 THEN ""
    ELSE LET year == parseInt(Substring(dateStr, 0, 2))
             month == Substring(dateStr, 2, 4)
             day == Substring(dateStr, 4, 6)
             fullYear == IF year.nan THEN NaN
                         ELSE IF year.n <= 40 THEN Num(2000 + year.n) ELSE Num(1900 + year.n)
         IN NumToString(fullYear) \o "-" \o month \o "-" \o day

\* s.replace(/<+$/, '')
RECURSIVE trimFill(_)
trimFill(s) ==
    IF Len(s) > 0 /\ CharAt(s, Len(s)) = "<" THEN trimFill(SubSeq(s, 1, Len(s) - 1)) ELSE s

\* s.replace(/</g, ' ')
RECURSIVE fillToSpace(_)
fillToSpace(s) ==
    IF Len(s) = 0 THEN ""
    ELSE (IF CharAt(s, 1) = "<" THEN " " ELSE CharAt(s, 1)) \o fillToSpace(SubSeq(s, 2, Len(s)))

\* the white space of the texts handled here (\s): space and line feed
WhiteSpace == {" ", "\n"}

\* String.prototype.trim
RECURSIVE trim(_)
trim(s) ==
    IF Len(s) > 0 /\ CharAt(s, 1) \in WhiteSpace THEN trim(SubSeq(s, 2, Len(s)))
    ELSE IF Len(s) > 0 /\ CharAt(s, Len(s)) \in WhiteSpace THEN trim(SubSeq(s, 1, Len(s) - 1))
    ELSE s

\* 1-based position of the first "<<" in s, 0 when there is none
firstSeparator(s) ==
    IF \E i \in 1..(Len(s) - 1) : SubSeq(s, i, i + 1) = "<<"
    THEN CHOOSE i \in 1..(Len(s) - 1) :
           /\ SubSeq(s, i, i + 1) = "<<"
           /\ \A j \in 1..(i - 1) : SubSeq(s, j, j + 1) # "<<"
    ELSE 0

\* s.split('<<')[0]
namePart0(s) ==
    IF firstSeparator(s) = 0 THEN s ELSE SubSeq(s, 1, firstSeparator(s) - 1)

\* s.split('<<')[1], "" standing for undefined (both end as '' in the callers)
namePart1(s) ==
    IF firstSeparator(s) = 0 THEN ""
    ELSE namePart0(SubSeq(s, firstSeparator(s) + 2, Len(s)))

nameOf(part) == trim(fillToSpace(part))

Field(value, confidence) == [value |-> value, confidence |-> confidence]

\* MRZRecord giving the personal number the record's confidence even when empty
MRZRecordFlat(documentType, issuingCountry, lastName, firstName, documentNumber, nationality, dob, sex, expiry, personalNumber, checksumValid) ==
    LET confidence == IF checksumValid THEN 95 ELSE 70
    IN [documentType |-> Field(documentType, confidence),
        issuingCountry |-> Field(issuingCountry, confidence),
        lastName |-> Field(lastName, confidence),
        firstName |-> Field(firstName, confidence),
        documentNumber |-> Field(documentNumber, confidence),
        nationality |-> Field(nationality, confidence),
        dateOfBirth |-> Field(parseDate(dob), confidence),
        sex |-> Field(sex, confidence),
        expiryDate |-> Field(parseDate(expiry), confidence),
        personalNumber |-> Field(personalNumber, confidence),
        checksumValid |-> checksumValid]

\* the record both layouts return
MRZRecord(documentType, issuingCountry, lastName, firstName, documentNumber, nationality, dob, sex, expiry, personalNumber, checksumValid) ==
    LET confidence == IF checksumValid THEN 95 ELSE 70
    IN [documentType |-> Field(documentType, confidence),
        issuingCountry |-> Field(issuingCountry, confidence),
        lastName |-> Field(lastName, confidence),
        firstName |-> Field(firstName, confidence),
        documentNumber |-> Field(documentNumber, confidence),
        nationality |-> Field(nationality, confidence),
        dateOfBirth |-> Field(parseDate(dob), confidence),
        sex |-> Field(sex, confidence),
        expiryDate |-> Field(parseDate(expiry), confidence),
        personalNumber |-> Field(personalNumber, IF personalNumber # "" THEN confidence ELSE 0),
        checksumValid |-> checksumValid]

\* td3ChecksumValid with the personal-number check digit counted in
td3ChecksumValidWithPersonal(line2) ==
    /\ validateCheckDigit(trimFill(Substring(line2, 0, 9)), Substring(line2, 9, 10))
    /\ validateCheckDigit(Substring(line2, 13, 19), Substring(line2, 19, 20))
    /\ validateCheckDigit(Substring(line2, 21, 27), Substring(line2, 27, 28))
    /\ validateCheckDigit(trimFill(Substring(line2, 28, 42)), Substring(line2, 42, 43))

td3ChecksumValid(line2) ==
    /\ validateCheckDigit(trimFill(Substring(line2, 0, 9)), Substring(line2, 9, 10))
    /\ validateCheckDigit(Substring(line2, 13, 19), Substring(line2, 19, 20))
    /\ validateCheckDigit(Substring(line2, 21, 27), Substring(line2, 27, 28))

parseTD3(line1, line2) ==
    MRZRecord(trimFill(Substring(line1, 0, 2)),
              trimFill(Substring(line1, 2, 5)),
              nameOf(namePart0(Substring(line1, 5, Len(line1)))),
              nameOf(namePart1(Substring(line1, 5, Len(line1)))),
              trimFill(Substring(line2, 0, 9)),
              trimFill(Substring(line2, 10, 13)),
              Substring(line2, 13, 19),
              Substring(line2, 20, 21),
              Substring(line2, 21, 27),
              trimFill(Substring(line2, 28, 42)),
              td3ChecksumValid(line2))

td1ChecksumValid(line1, line2) ==
    /\ validateCheckDigit(trimFill(Substring(line1, 5, 14)), Substring(line1, 14, 15))
    /\ validateCheckDigit(Substring(line2, 0, 6), Substring(line2, 6, 7))
    /\ validateCheckDigit(Substring(line2, 8, 14), Substring(line2, 14, 15))

parseTD1(line1, line2, line3) ==
    [MRZRecord(trimFill(Substring(line1, 0, 2)),
               trimFill(Substring(line1, 2, 5)),
               nameOf(namePart0(line3)),
               nameOf(namePart1(line3)),
               trimFill(Substring(line1, 5, 14)),
               trimFill(Substring(line2, 15, 18)),
               Substring(line2, 0, 6),
               Substring(line2, 7, 8),
               Substring(line2, 8, 14),
               "",
               td1ChecksumValid(line1, line2))
     EXCEPT !.personalNumber = Field("", 0)]

\* the branch parseMRZ takes: "TD3", "TD1" or "null"
mrzLayout(lines) ==
    IF Len(lines) < 2 THEN "null"
    ELSE IF Len(lines[1]) = 44 /\ Len(lines[2]) = 44 THEN "TD3"
    ELSE IF Len(lines) = 3 /\ Len(lines[1]) = 30 THEN "TD1"
    ELSE "null"

parseMRZ(lines) ==
    IF mrzLayout(lines) = "TD3" THEN parseTD3(lines[1], lines[2])
    ELSE IF mrzLayout(lines) = "TD1" THEN parseTD1(lines[1], lines[2], lines[3])
    ELSE Undefined

-----------------------------------------------------------------------------
(* OCR text: MRZ line extraction and free-text field extraction *)

\* text.split('\n')
RECURSIVE split(_)
split(text) ==
    IF \E i \in 1..Len(text) : CharAt(text, i) = "\n"
    THEN LET i == CHOOSE k \in 1..Len(text) :
                    CharAt(text, k) = "\n" /\ \A j \in 1..(k - 1) : CharAt(text, j) # "\n"
         IN <<SubSeq(text, 1, i - 1)>> \o split(SubSeq(text, i + 1, Len(text)))
    ELSE <<text>>

\* [A-Z0-9<]
MRZChars == Upper \cup Digits \cup {"<"}

\* line.replace(/[^A-Z0-9<]/g, '')
RECURSIVE keepMRZChars(_)
keepMRZChars(line) ==
    IF Len(line) = 0 THEN ""
    ELSE IF Len(line) = 1 THEN (IF line \in MRZChars THEN line ELSE "")
    ELSE LET half == Len(line) \div 2
         IN keepMRZChars(SubSeq(line, 1, half)) \o keepMRZChars(SubSeq(line, half + 1, Len(line)))

\* a cleaned line is kept when /^[A-Z0-9<]{30,}$/ matches it and it has at
\* least 30 characters
extractMRZ(text) ==
    LET lines == split(text)
        cleaned == [i \in 1..Len(lines) |-> keepMRZChars(trim(lines[i]))]
        mrzPattern(c) == Len(c) >= 30 /\ \A i \in 1..Len(c) : CharAt(c, i) \in MRZChars
    IN SelectSeq(cleaned, mrzPattern)

RECURSIVE toUpperCase(_)
toUpperCase(text) ==
    IF Len(text) = 0 THEN ""
    ELSE IF Len(text) = 1
    THEN (IF text \in Lower
          THEN CharAt(UpperLetters, CHOOSE i \in 1..Len(LowerLetters) : CharAt(LowerLetters, i) = text)
          ELSE text)
    ELSE LET half == Len(text) \div 2
         IN toUpperCase(SubSeq(text, 1, half)) \o toUpperCase(SubSeq(text, half + 1, Len(text)))

extractDocumentType(text) ==
    LET upperText == toUpperCase(text)
    IN IF Includes(upperText, "PASSPORT") THEN Field("P", 85)
       ELSE IF Includes(upperText, "IDENTITY CARD") \/ Includes(upperText, "ID CARD")
       THEN Field("ID", 85)
       ELSE IF Includes(upperText, "VISA") THEN Field("V", 85)
       ELSE IF /\ Includes(upperText, "DRIVING")
               /\ (Includes(upperText, "LICENSE") \/ Includes(upperText, "LICENCE"))
       THEN Field("DL", 85)
       ELSE Field("UNKNOWN", 40)

\* the result of text.match(pattern) when the pattern matches: match[1] is the
\* text of its first group; a failed match is null (Undefined)
Matched(group) == [group |-> group]

\* match && match[1]
HasGroup(match) == ~IsUndefined(match) /\ match.group # ""

\* extractFieldFromText on the results of text.match for its patterns, in order
RECURSIVE extractFieldFromText(_)
extractFieldFromText(matches) ==
    IF matches = <<>> THEN Field("", 0)
    ELSE IF HasGroup(Head(matches)) THEN Field(trim(Head(matches).group), 75)
    ELSE extractFieldFromText(Tail(matches))

\* [\/\-]
IsDateSeparator(c) == c \in {"/", "-"}

\* a non-empty run of decimal digits
IsDigitRun(s) == Len(s) > 0 /\ AllDigits(s)

\* s.padStart(2, '0')
padStart2(s) == IF Len(s) < 2 THEN "0" \o s ELSE s

\* /^(\d{2})[\/\-](\d{2})[\/\-](\d{4})$/
IsDayMonthYear(s) ==
    /\ Len(s) = 10
    /\ IsDigitRun(SubSeq(s, 1, 2)) /\ IsDateSeparator(CharAt(s, 3))
    /\ IsDigitRun(SubSeq(s, 4, 5)) /\ IsDateSeparator(CharAt(s, 6))
    /\ IsDigitRun(SubSeq(s, 7, 10))

\* /^(\d{4})[\/\-](\d{2})[\/\-](\d{2})$/
IsYearMonthDay(s) ==
    /\ Len(s) = 10
    /\ IsDigitRun(SubSeq(s, 1, 4)) /\ IsDateSeparator(CharAt(s, 5))
    /\ IsDigitRun(SubSeq(s, 6, 7)) /\ IsDateSeparator(CharAt(s, 8))
    /\ IsDigitRun(SubSeq(s, 9, 10))

\* /^(\d{1})[\/\-](\d{1,2})[\/\-](\d{4})$/
IsShortDayMonthYear(s) ==
    /\ Len(s) \in {8, 9}
    /\ IsDigitRun(SubSeq(s, 1, 1)) /\ IsDateSeparator(CharAt(s, 2))
    /\ IsDigitRun(SubSeq(s, 3, Len(s) - 5)) /\ IsDateSeparator(CharAt(s, Len(s) - 4))
    /\ IsDigitRun(SubSeq(s, Len(s) - 3, Len(s)))

\* the first matching format decides: year-month-day text is kept (with "-"),
\* anything else is read as day, month, year
normalizeDateToISO(dateStr) ==
    IF IsDayMonthYear(dateStr)
    THEN SubSeq(dateStr, 7, 10) \o "-" \o SubSeq(dateStr, 4, 5) \o "-" \o SubSeq(dateStr, 1, 2)
    ELSE IF IsYearMonthDay(dateStr)
    THEN SubSeq(dateStr, 1, 4) \o "-" \o SubSeq(dateStr, 6, 7) \o "-" \o SubSeq(dateStr, 9, 10)
    ELSE IF IsShortDayMonthYear(dateStr)
    THEN SubSeq(dateStr, Len(dateStr) - 3, Len(dateStr))
         \o "-" \o padStart2(SubSeq(dateStr, 3, Len(dateStr) - 5))
         \o "-" \o padStart2(SubSeq(dateStr, 1, 1))
    ELSE ""

\* extractDateField on the results of text.match for its patterns, in order
RECURSIVE extractDateField(_)
extractDateField(matches) ==
    IF matches = <<>> THEN Field("", 0)
    ELSE LET normalized == IF HasGroup(Head(matches))
                           THEN normalizeDateToISO(trim(Head(matches).group))
                           ELSE ""
         IN IF normalized # "" THEN Field(normalized, 75)
            ELSE extractDateField(Tail(matches))

\* the merge the comment in analyzeDocument describes: the free-text result,
\* and the MRZ field only when free text found nothing
orElsePreferText(mrz, field, fallback) == IF IsUndefined(mrz) \/ fallback.value # "" THEN fallback ELSE mrz[field]

\* mrzData?.field || fallback: a field of a decoded record is an object and so
\* always truthy; the fallback is taken only when no record was decoded
orElse(mrz, field, fallback) == IF IsUndefined(mrz) THEN fallback ELSE mrz[field]

\* analyzeDocument after performOCR resolved with the text; matches holds, for
\* each free-text field, the results of text.match for its patterns
analyzeDocument(text, matches) ==
    LET lines == extractMRZ(text)
        mrz == IF Len(lines) > 0 THEN parseMRZ(lines) ELSE Undefined
    IN [documentType |-> orElse(mrz, "documentType", extractDocumentType(text)),
        documentNumber |-> orElse(mrz, "documentNumber", extractFieldFromText(matches.documentNumber)),
        issuingCountry |-> orElse(mrz, "issuingCountry", extractFieldFromText(matches.issuingCountry)),
        firstName |-> orElse(mrz, "firstName", extractFieldFromText(matches.firstName)),
        lastName |-> orElse(mrz, "lastName", extractFieldFromText(matches.lastName)),
        dateOfBirth |-> orElse(mrz, "dateOfBirth", extractDateField(matches.dateOfBirth)),
        nationality |-> orElse(mrz, "nationality", extractFieldFromText(matches.nationality)),
        sex |-> orElse(mrz, "sex", extractFieldFromText(matches.sex)),
        issueDate |-> extractDateField(matches.issueDate),
        expiryDate |-> orElse(mrz, "expiryDate", extractDateField(matches.expiryDate)),
        placeOfBirth |-> extractFieldFromText(matches.placeOfBirth),
        mrzData |-> mrz]

-----------------------------------------------------------------------------
(* Verify request handler *)

generateSummary(d, checks, elig) ==
    LET docType == IF d.documentType.value # "" THEN d.documentType.value ELSE "Document"
        fullName == trim(d.firstName.value \o " " \o d.lastName.value)
        name == IF fullName # "" THEN fullName ELSE "Unknown"
        nationality == IF d.nationality.value # "" THEN d.nationality.value ELSE "Unknown"
        failures == Len(FilterStatus(checks, "fail"))
        warnings == Len(FilterStatus(checks, "warning"))
    IN docType \o " for " \o name \o " (" \o nationality \o "). "
       \o (IF failures > 0 THEN ToString(failures) \o " validation failure(s) detected. " ELSE "")
       \o (IF warnings > 0 THEN ToString(warnings) \o " warning(s) noted. " ELSE "")
       \o (IF failures = 0 /\ warnings = 0 THEN "All validation checks passed. " ELSE "")
       \o (IF elig.eligible THEN "Applicant is eligible for visa application."
           ELSE "Visa eligibility: NOT ELIGIBLE. " \o elig.reason)

\* the six field confidences, in the order the handler lists them, zeros dropped
confidenceScores(d) ==
    SelectSeq(<<d.documentNumber.confidence, d.firstName.confidence, d.lastName.confidence,
                d.dateOfBirth.confidence, d.expiryDate.confidence, d.nationality.confidence>>,
              LAMBDA c : c > 0)

\* scores.reduce((a, b) => a + b, 0)
RECURSIVE sumOf(_)
sumOf(scores) == IF scores = <<>> THEN 0 ELSE Head(scores) + sumOf(Tail(scores))

\* Math.round(p / q) for p >= 0, q > 0: halves go up
roundQuotient(p, q) == (2 * p + q) \div (2 * q)

\* the handler's overallConfidence with the zero confidences kept in the mean
meanConfidenceOfAllSix(d) ==
    LET scores == confidenceScores(d)
    IN IF Len(scores) > 0 THEN roundQuotient(sumOf(scores), 6) ELSE 50

\* the handler's overallConfidence
meanConfidence(d) ==
    LET scores == confidenceScores(d)
    IN IF Len(scores) > 0 THEN roundQuotient(sumOf(scores), Len(scores)) ELSE 50

\* the result used when applicant data or policy is missing
defaultEligibility ==
    [eligible |-> TRUE, reason |-> "No eligibility policy provided", confidence |-> 100]

-----------------------------------------------------------------------------
(* Inputs *)

\* the largest number of validation checks handed to generateRecommendations
MaxChecks == 3

\* the largest number of lines handed to parseMRZ
MaxLines == 3

\* the longest data string handed to calculateCheckDigit, the fixed samples apart
MaxDataLen == 3

\* every sequence over S of length at most n
RECURSIVE SeqsUpTo(_, _)
SeqsUpTo(S, n) ==
    IF n = 0 THEN {<<>>}
    ELSE LET shorter == SeqsUpTo(S, n - 1)
         IN shorter \cup {Append(q, x) : q \in shorter, x \in S}

\* every string over the characters C of length at most n
RECURSIVE StringsUpTo(_, _)
StringsUpTo(C, n) ==
    IF n = 0 THEN {""}
    ELSE LET shorter == StringsUpTo(C, n - 1)
         IN shorter \cup {q \o c : q \in shorter, c \in C}

\* new Date() at the time of the call: during 3 November 2026, and 15 November
\* 2026 at midnight sharp
NowSamples == {Date(2026, 11, 3, 1), Date(2026, 11, 15, 0)}

\* ValidationCheck values of each status
CheckSamples ==
    {Check("documentNumber", "pass", "Document number format valid", 95),
     Check("expiryDate", "fail", "Document has expired", 95),
     Check("mrzChecksum", "fail", "MRZ checksums failed", 60),
     Check("expiryDate", "warning", "Document expires in 3 months", 75),
     Check("nationality", "warning", "Nationality code format unusual", 75)}

\* EligibilityResult values: the two outcomes of checkEligibility and the
\* handler's default when no policy is given
EligibilitySamples ==
    {[eligible |-> TRUE, reason |-> "All eligibility requirements met", confidence |-> 95],
     [eligible |-> FALSE, reason |-> "Passport must be valid for at least 6 months", confidence |-> 85],
     [eligible |-> TRUE, reason |-> "No eligibility policy provided", confidence |-> 100]}

ConfidenceSamples == {0, 50, 69, 70, 75, 89, 90, 100}

\* expiry dates: none, two unparseable ones (month 31 from "12/31/2030" read as
\* DD/MM/YYYY; an MRZ field of fill characters), long expired, expired within
\* the month, 12 days ahead, 3 months, a day short of 6 months, 12 months, 9 years
ExpirySamples ==
    {Field("", 0), Field("2030-31-12", 75), Field("NaN-<<-<<", 70),
     Field("2020-01-15", 95), Field("2026-10-20", 95), Field("2026-11-15", 75),
     Field("2027-02-10", 95), Field("2027-05-03", 95), Field("2027-11-20", 95),
     Field("2036-06-01", 75)}

\* dates of birth: none, unparseable (month 25 from "12/25/1990"), age 36,
\* age 15 or 16 by the day, not yet born, age 126
BirthSamples ==
    {Field("", 0), Field("1990-25-12", 75), Field("1990-06-15", 95),
     Field("2010-11-15", 95), Field("2030-01-01", 75), Field("1900-01-01", 75)}

NumberSamples == {Field("", 0), Field("L898902C3", 95), Field("ab-12", 75)}

FirstNameSamples == {Field("", 0), Field("A", 75), Field("ANNA MARIA", 95)}

LastNameSamples == {Field("", 0), Field("E", 75), Field("Erikssen", 75), Field("ERIKSSON", 95)}

NationalitySamples == {Field("", 0), Field("UTO", 95), Field("XXX", 95), Field("Utopia", 75)}

\* ICAO 9303 specimen records and variants of them
TD3Line1 == "P<UTOERIKSSON<<ANNA<MARIA<<<<<<<<<<<<<<<<<<<"

TD3Line2 == "L898902C36UTO7408122F1204159ZE184226B<<<<<10"

TD1Line1 == "I<UTOD231458907<<<<<<<<<<<<<<<"

TD1Line2 == "7408122F1204159UTO<<<<<<<<<<<6"

TD1Line3 == "ERIKSSON<<ANNA<MARIA<<<<<<<<<<"

\* s with the character at 0-based position i replaced by c
WithChar(s, i, c) == SubSeq(s, 1, i) \o c \o SubSeq(s, i + 2, Len(s))

\* embedded MRZ records of a document: none, a valid one, one whose checksum
\* fails and whose number differs, one without names and number
MRZSamples ==
    {Undefined,
     parseTD3(TD3Line1, TD3Line2),
     parseTD3("P<UTOERIKSEN<<ANNA<<<<<<<<<<<<<<<<<<<<<<<<<<", WithChar(TD3Line2, 8, "4")),
     parseTD3("P<UTO<<<<<<<<<<<<<<<<<<<<<<<<<<<<<<<<<<<<<<<", "<<<<<<<<<0UTO7408122F1204159<<<<<<<<<<<<<<00")}

\* the fields of an ExtractedDocument the engines read
Document(number, first, last, birth, nationality, expiry, mrz) ==
    [documentNumber |-> number, firstName |-> first, lastName |-> last,
     dateOfBirth |-> birth, nationality |-> nationality, expiryDate |-> expiry,
     mrzData |-> mrz]

DocumentSamples ==
    {Document(n, f, l, b, c, e, z) :
        n \in NumberSamples, f \in FirstNameSamples, l \in LastNameSamples,
        b \in BirthSamples, c \in {Field("", 0), Field("UTO", 95), Field("Utopia", 75)},
        e \in ExpirySamples, z \in MRZSamples}

\* eligibility inputs: documents over the fields checkEligibility reads
EligibilityDocuments ==
    {Document(n, Field("ANNA MARIA", 95), Field("ERIKSSON", 95), b, c, e, Undefined) :
        n \in {Field("", 0), Field("L898902C3", 95)},
        b \in BirthSamples \ {Field("1900-01-01", 75)},
        c \in {Field("", 0), Field("UTO", 95), Field("XXX", 95)},
        e \in ExpirySamples \ {Field("NaN-<<-<<", 70), Field("2036-06-01", 75)}}

ApplicantSamples ==
    {[passportNumber |-> n, visaType |-> "tourist"] : n \in {"", "L898902C3", "X1234567"}}

PolicySamples ==
    {[minPassportValidity |-> v, allowedNationalities |-> a, blockedNationalities |-> b,
      minAge |-> lo, maxAge |-> hi] :
        v \in {0, 6},
        a \in {Undefined, [items |-> <<>>], [items |-> <<"UTO", "CAN">>]},
        b \in {Undefined, [items |-> <<"XXX">>]},
        lo \in {Undefined, Num(0), Num(16)},
        hi \in {Undefined, Num(0), Num(30)}}

\* lines handed to parseMRZ: the specimen lines, variants with one check digit
\* or one other character changed, and lines of other lengths
LineSamples ==
    {TD3Line1, TD3Line2,
     WithChar(TD3Line2, 9, "5"), WithChar(TD3Line2, 19, "<"), WithChar(TD3Line2, 27, "0"),
     WithChar(TD3Line2, 42, "9"), WithChar(TD3Line2, 20, "M"),
     SubSeq(TD3Line2, 1, 28) \o "<<<<<<<<<<<<<<06",
     TD1Line1, TD1Line2, TD1Line3,
     WithChar(TD1Line1, 14, "8"), WithChar(TD1Line2, 6, "3"), WithChar(TD1Line2, 14, "A"),
     "7408122F12041", "I<UTOD23145890<<<<<<<<<<<<<<<<<<<<<<"}

CheckAlphabet == {"<", "0", "7", "9", "A", "Z"}

DataSamples == StringsUpTo(CheckAlphabet, MaxDataLen) \cup {"123456789", "L898902C3", "740812"}

CheckCharSamples == Digits \cup {"<", "A", ""}

\* no pattern of any free-text field matches
NoMatches ==
    [documentNumber |-> <<Undefined, Undefined>>, issuingCountry |-> <<Undefined, Undefined>>,
     firstName |-> <<Undefined, Undefined>>, lastName |-> <<Undefined, Undefined>>,
     dateOfBirth |-> <<Undefined, Undefined>>, nationality |-> <<Undefined, Undefined>>,
     sex |-> <<Undefined>>, issueDate |-> <<Undefined, Undefined>>,
     expiryDate |-> <<Undefined, Undefined>>, placeOfBirth |-> <<Undefined>>]

\* recognised texts without MRZ lines; matches holds what text.match returns
\* for the patterns analyzeDocument lists for each field, in their order (a
\* group of [A-Z\s]+ under /i runs on across line ends and into the next label)
FreeTextSamples ==
    {
     \* a labelled passport page with day/month/year dates
     [text |-> "PASSPORT\n"
             \o "Passport No: L898902C3\n"
             \o "Surname: ERIKSSON\n"
             \o "Given Names: ANNA MARIA\n"
             \o "Nationality: UTO\n"
             \o "Place of Birth: ZENITH\n"
             \o "Sex: F\n"
             \o "Date of Issue: 16/04/2002\n"
             \o "Date of Birth: 12/08/1974\n"
             \o "Date of Expiry: 15/04/2027",
      matches |-> [NoMatches EXCEPT !.documentNumber = <<Matched("L898902C3"), Undefined>>,
                                   !.firstName = <<Matched("ANNA MARIA\nNationality"), Matched("Names")>>,
                                   !.lastName = <<Matched("ERIKSSON\nGiven Names"), Undefined>>,
                                   !.dateOfBirth = <<Matched("12/08/1974"), Undefined>>,
                                   !.nationality = <<Matched("UTO"), Undefined>>,
                                   !.sex = <<Matched("F")>>,
                                   !.issueDate = <<Matched("16/04/2002"), Undefined>>,
                                   !.expiryDate = <<Matched("15/04/2027"), Undefined>>,
                                   !.placeOfBirth = <<Matched("ZENITH\nSex")>>]],
     \* an identity card with a year-first date of birth and a month/day/year expiry date
     [text |-> "Identity Card\n"
             \o "Surname: ERIKSSON.\n"
             \o "Given names: ANNA.\n"
             \o "Country of issue: CAN.\n"
             \o "DOB: 1974-08-12\n"
             \o "Expiry date: 12/31/2030",
      matches |-> [NoMatches EXCEPT !.issuingCountry = <<Matched("CAN"), Matched("CAN")>>,
                                   !.firstName = <<Matched("ANNA"), Undefined>>,
                                   !.lastName = <<Matched("ERIKSSON"), Undefined>>,
                                   !.dateOfBirth = <<Undefined, Matched("1974-08-12")>>,
                                   !.expiryDate = <<Matched("12/31/2030"), Undefined>>]],
     \* a visa with a 'surname, given name' line and a first-name label followed by no name
     [text |-> "visa\n"
             \o "ERIKSSON, ANNA\n"
             \o "first name: \n"
             \o "12 High Street",
      matches |-> [NoMatches EXCEPT !.firstName = <<Matched("\n"), Undefined>>,
                                   !.lastName = <<Undefined, Matched("ERIKSSON")>>]],
     \* a driving licence with single-digit day and month
     [text |-> "DRIVING LICENCE\n"
             \o "D1234567.\n"
             \o "citizen of Utopia.\n"
             \o "GENDER: m.\n"
             \o "Date of birth: 31/1/1990\n"
             \o "Issue date: 5/8/2020",
      matches |-> [NoMatches EXCEPT !.documentNumber = <<Undefined, Matched("D1234567")>>,
                                   !.dateOfBirth = <<Matched("31/1/1990"), Undefined>>,
                                   !.nationality = <<Undefined, Matched("Utopia")>>,
                                   !.sex = <<Matched("m")>>,
                                   !.issueDate = <<Matched("5/8/2020"), Undefined>>]],
     \* nothing recognised
     [text |-> "",
      matches |-> NoMatches],
     \* noise and one labelled date
     [text |-> "~~ ## ~~\n"
             \o "expiration date: 2027-05-03",
      matches |-> [NoMatches EXCEPT !.expiryDate = <<Undefined, Matched("2027-05-03")>>]]
    }

\* MRZ lines below the text: none, the TD3 specimen, a TD3 record without given
\* names, one with a wrong expiry check digit, one with all data fields blank,
\* the TD1 specimen, and a single line
MRZBlockSamples ==
    {<<>>,
     <<TD3Line1, TD3Line2>>,
     <<"P<UTOERIKSSON<<<<<<<<<<<<<<<<<<<<<<<<<<<<<<<", TD3Line2>>,
     <<TD3Line1, WithChar(TD3Line2, 27, "0")>>,
     <<"P<UTO<<<<<<<<<<<<<<<<<<<<<<<<<<<<<<<<<<<<<<<", "<<<<<<<<<0UTO7408122F1204159<<<<<<<<<<<<<<00">>,
     <<TD1Line1, TD1Line2, TD1Line3>>,
     <<TD3Line1>>}

\* the lines of a block, each on a line of its own after the text
RECURSIVE BelowText(_)
BelowText(block) == IF block = <<>> THEN "" ELSE "\n" \o Head(block) \o BelowText(Tail(block))

\* what performOCR resolves with: a text, MRZ lines below it; the MRZ lines
\* change none of the matches
OcrTextSamples ==
    {[text |-> f.text \o BelowText(b), matches |-> f.matches] :
        f \in FreeTextSamples, b \in MRZBlockSamples}

\* request bodies; imageData "" stands for an absent or empty imageData; the
\* last one is a body that is not JSON, on which request.json() rejects
RequestSamples ==
    {[malformed |-> FALSE, imageData |-> i, applicantData |-> a, eligibilityPolicy |-> p] :
        i \in {"", "data:image/png;base64,iVBORw0KGgo="},
        a \in {Undefined} \cup ApplicantSamples,
        p \in {Undefined,
               [minPassportValidity |-> 3, allowedNationalities |-> [items |-> <<"UTO", "CAN">>],
                blockedNationalities |-> Undefined, minAge |-> Num(16), maxAge |-> Undefined],
               [minPassportValidity |-> 6, allowedNationalities |-> Undefined,
                blockedNationalities |-> [items |-> <<"XXX">>], minAge |-> Undefined,
                maxAge |-> Num(30)]}}
    \cup {[malformed |-> TRUE]}

\* field confidences handed to the overall-confidence computation
ScoreSamples == {0, 1, 70, 75, 100}

ScoredField(c) == Field(IF c = 0 THEN "" ELSE "X", c)

ScoredDocuments ==
    {Document(ScoredField(n), ScoredField(f), ScoredField(l), ScoredField(b), ScoredField(c), ScoredField(e), Undefined) :
        n \in ScoreSamples, f \in ScoreSamples, l \in ScoreSamples,
        b \in ScoreSamples, c \in ScoreSamples, e \in ScoreSamples}

-----------------------------------------------------------------------------
(* Specifications: each function is applied once to inputs drawn by Init *)

IdleRecommend ==
    /\ eligibility = Undefined
    /\ overallConfidence = 0
    /\ recommendations = <<>>

IdleEngine ==
    /\ doc = Undefined
    /\ applicant = Undefined
    /\ policy = Undefined
    /\ now = InvalidDate

IdleMRZ ==
    /\ mrzLines = <<>>
    /\ mrzData = Undefined

IdleCheckDigit ==
    /\ input = ""
    /\ checkDigit = ""
    /\ calculated = 0
    /\ checkValid = FALSE

IdleDate ==
    /\ dateArg = ""
    /\ isoDate = ""

IdleOcr ==
    /\ ocrText = ""
    /\ captures = Undefined

IdleHttp ==
    /\ request = Undefined
    /\ response = Undefined
    /\ summary = ""
    /\ invoked = <<>>

\* generateRecommendations

InitRecommend ==
    /\ pc = "call"
    /\ validationChecks \in SeqsUpTo(CheckSamples, MaxChecks)
    /\ eligibility \in EligibilitySamples
    /\ overallConfidence \in ConfidenceSamples
    /\ recommendations = <<>>
    /\ IdleEngine /\ IdleMRZ /\ IdleCheckDigit /\ IdleDate /\ IdleOcr /\ IdleHttp

Recommend ==
    /\ pc = "call"
    /\ recommendations' = generateRecommendations(validationChecks, eligibility, overallConfidence)
    /\ pc' = "done"
    /\ UNCHANGED <<dateVars, ocrVars, httpVars, validationChecks, eligibility, overallConfidence, doc, applicant, policy,
                   now, mrzLines, mrzData, input, checkDigit, calculated, checkValid>>

NextRecommend == Recommend

SpecRecommend == InitRecommend /\ [][NextRecommend]_vars

\* validateDocument

InitValidate ==
    /\ pc = "call"
    /\ doc \in DocumentSamples
    /\ now \in NowSamples
    /\ applicant = Undefined
    /\ policy = Undefined
    /\ validationChecks = <<>>
    /\ IdleRecommend /\ IdleMRZ /\ IdleCheckDigit /\ IdleDate /\ IdleOcr /\ IdleHttp

Validate ==
    /\ pc = "call"
    /\ validationChecks' = validateDocument(doc, now)
    /\ pc' = "done"
    /\ UNCHANGED <<dateVars, ocrVars, httpVars, eligibility, overallConfidence, recommendations, doc, applicant, policy,
                   now, mrzLines, mrzData, input, checkDigit, calculated, checkValid>>

NextValidate == Validate

SpecValidate == InitValidate /\ [][NextValidate]_vars

\* checkEligibility

InitEligibility ==
    /\ pc = "call"
    /\ doc \in EligibilityDocuments
    /\ applicant \in ApplicantSamples
    /\ policy \in PolicySamples
    /\ now \in NowSamples
    /\ eligibility = Undefined
    /\ overallConfidence = 0
    /\ recommendations = <<>>
    /\ validationChecks = <<>>
    /\ IdleMRZ /\ IdleCheckDigit /\ IdleDate /\ IdleOcr /\ IdleHttp

Eligibility ==
    /\ pc = "call"
    /\ eligibility' = checkEligibility(doc, applicant, policy, now)
    /\ pc' = "done"
    /\ UNCHANGED <<dateVars, ocrVars, httpVars, validationChecks, overallConfidence, recommendations, doc, applicant,
                   policy, now, mrzLines, mrzData, input, checkDigit, calculated, checkValid>>

NextEligibility == Eligibility

SpecEligibility == InitEligibility /\ [][NextEligibility]_vars

\* parseMRZ

InitMRZ ==
    /\ pc = "call"
    /\ mrzLines \in SeqsUpTo(LineSamples, MaxLines)
    /\ mrzData = Undefined
    /\ validationChecks = <<>>
    /\ IdleRecommend /\ IdleEngine /\ IdleCheckDigit /\ IdleDate /\ IdleOcr /\ IdleHttp

ParseMRZ ==
    /\ pc = "call"
    /\ mrzData' = parseMRZ(mrzLines)
    /\ pc' = mrzLayout(mrzLines)
    /\ UNCHANGED <<dateVars, ocrVars, httpVars, validationChecks, eligibility, overallConfidence, recommendations, doc,
                   applicant, policy, now, mrzLines, input, checkDigit, calculated, checkValid>>

NextMRZ == ParseMRZ

SpecMRZ == InitMRZ /\ [][NextMRZ]_vars

\* calculateCheckDigit, validateCheckDigit

InitCheckDigit ==
    /\ pc = "call"
    /\ input \in DataSamples
    /\ checkDigit \in CheckCharSamples
    /\ calculated = 0
    /\ checkValid = FALSE
    /\ validationChecks = <<>>
    /\ IdleRecommend /\ IdleEngine /\ IdleMRZ /\ IdleDate /\ IdleOcr /\ IdleHttp

Calculate ==
    /\ pc = "call"
    /\ calculated' = calculateCheckDigit(input)
    /\ pc' = "calculated"
    /\ UNCHANGED <<dateVars, ocrVars, httpVars, validationChecks, eligibility, overallConfidence, recommendations, doc,
                   applicant, policy, now, mrzLines, mrzData, input, checkDigit, checkValid>>

ValidateDigit ==
    /\ pc = "calculated"
    /\ checkValid' = validateCheckDigit(input, checkDigit)
    /\ pc' = "done"
    /\ UNCHANGED <<dateVars, ocrVars, httpVars, validationChecks, eligibility, overallConfidence, recommendations, doc,
                   applicant, policy, now, mrzLines, mrzData, input, checkDigit, calculated>>

NextCheckDigit == Calculate \/ ValidateDigit

SpecCheckDigit == InitCheckDigit /\ [][NextCheckDigit]_vars

-----------------------------------------------------------------------------
\* parseDate

\* a number below 100 written with two digits
TwoDigits(n) == IF n < 10 THEN "0" \o ToString(n) ELSE ToString(n)

\* arguments of parseDate: every YY with some MMDD, and strings that are not
\* six characters long or not digits
DateStringSamples ==
    {TwoDigits(yy) \o mmdd : yy \in 0..99, mmdd \in {"0101", "0812", "1231"}}
    \cup {"", "7", "74081", "7408122", "19740812", "<<<<<<", "74<812"}

InitParseDate ==
    /\ pc = "call"
    /\ dateArg \in DateStringSamples
    /\ isoDate = ""
    /\ validationChecks = <<>>
    /\ IdleRecommend /\ IdleEngine /\ IdleMRZ /\ IdleCheckDigit /\ IdleOcr /\ IdleHttp

ParseDate ==
    /\ pc = "call"
    /\ isoDate' = parseDate(dateArg)
    /\ pc' = "done"
    /\ UNCHANGED <<ocrVars, httpVars, dateArg, validationChecks, eligibility, overallConfidence, recommendations, doc,
                   applicant, policy, now, mrzLines, mrzData, input, checkDigit, calculated, checkValid>>

NextParseDate == ParseDate

SpecParseDate == InitParseDate /\ [][NextParseDate]_vars

-----------------------------------------------------------------------------
\* POST /api/verify: the handler suspends once, on analyzeDocument (performOCR)

\* the catch block's response; details is the caught error's message
FailureResponse(details) ==
    [status |-> 500, body |-> [error |-> "Failed to verify document", details |-> details]]

\* messages of the errors request.json() and performOCR reject with
ErrorDetails == {"Unknown error", "Unexpected end of JSON input", "recognition failed"}

InitVerify ==
    /\ pc = "request"
    /\ request \in RequestSamples
    /\ now \in NowSamples
    /\ response = Undefined
    /\ summary = ""
    /\ invoked = <<>>
    /\ doc = Undefined
    /\ applicant = Undefined
    /\ policy = Undefined
    /\ validationChecks = <<>>
    /\ IdleRecommend /\ IdleMRZ /\ IdleCheckDigit /\ IdleDate /\ IdleOcr

\* Post with the imageData test left out
PostWithoutImageTest ==
    /\ pc = "request"
    /\ IF request.malformed
       THEN /\ \E details \in ErrorDetails : response' = FailureResponse(details)
            /\ pc' = "done"
            /\ UNCHANGED <<applicant, policy, invoked>>
       ELSE /\ applicant' = request.applicantData
            /\ policy' = request.eligibilityPolicy
            /\ invoked' = <<"analyzeDocument">>
            /\ pc' = "ocr"
            /\ UNCHANGED response
    /\ UNCHANGED <<dateVars, ocrVars, request, summary, validationChecks, eligibility, overallConfidence,
                   recommendations, doc, now, mrzLines, mrzData, input, checkDigit, calculated, checkValid>>

\* the handler up to its suspension on analyzeDocument: body read, imageData
\* tested, performOCR started
Post ==
    /\ pc = "request"
    /\ IF request.malformed
       THEN /\ \E details \in ErrorDetails : response' = FailureResponse(details)
            /\ pc' = "done"
            /\ UNCHANGED <<applicant, policy, invoked>>
       ELSE /\ applicant' = request.applicantData
            /\ policy' = request.eligibilityPolicy
            /\ IF request.imageData = ""
               THEN /\ response' = [status |-> 400, body |-> [error |-> "Image data is required"]]
                    /\ pc' = "done"
                    /\ UNCHANGED invoked
               ELSE /\ invoked' = <<"analyzeDocument">>
                    /\ pc' = "ocr"
                    /\ UNCHANGED response
    /\ UNCHANGED <<dateVars, ocrVars, request, summary, validationChecks, eligibility, overallConfidence,
                   recommendations, doc, now, mrzLines, mrzData, input, checkDigit, calculated, checkValid>>

\* performOCR rejects: analyzeDocument rejects and the catch block answers
OcrRejects ==
    /\ pc = "ocr"
    /\ \E details \in ErrorDetails : response' = FailureResponse(details)
    /\ pc' = "done"
    /\ UNCHANGED <<dateVars, ocrVars, request, summary, invoked, validationChecks, eligibility,
                   overallConfidence, recommendations, doc, applicant, policy, now, mrzLines, mrzData,
                   input, checkDigit, calculated, checkValid>>

\* performOCR resolves: the rest of analyzeDocument and of the handler; each
\* const of the handler is computed once and bound
OcrResolves ==
    /\ pc = "ocr"
    /\ \E ocr \in OcrTextSamples :
       \E extractedDoc \in {analyzeDocument(ocr.text, ocr.matches)} :
       \E checks \in {validateDocument(extractedDoc, now)} :
       \E both \in {~IsUndefined(applicant) /\ ~IsUndefined(policy)} :
       \E result \in {IF both THEN checkEligibility(extractedDoc, applicant, policy, now)
                      ELSE defaultEligibility} :
       \E confidence \in {meanConfidence(extractedDoc)} :
       \E text \in {generateSummary(extractedDoc, checks, result)} :
       \E actions \in {generateRecommendations(checks, result, confidence)} :
            /\ ocrText' = ocr.text
            /\ captures' = ocr.matches
            /\ mrzLines' = extractMRZ(ocr.text)
            /\ mrzData' = extractedDoc.mrzData
            /\ doc' = extractedDoc
            /\ validationChecks' = checks
            /\ eligibility' = result
            /\ overallConfidence' = confidence
            /\ summary' = text
            /\ recommendations' = actions
            /\ invoked' = invoked \o <<"validateDocument">>
                          \o (IF both THEN <<"checkEligibility">> ELSE <<>>)
                          \o <<"generateSummary", "generateRecommendations">>
            /\ response' = [status |-> 200,
                            body |-> [overallConfidence |-> confidence, extractedFields |-> extractedDoc,
                                      validationChecks |-> checks, eligibility |-> result,
                                      recommendedActions |-> actions, summary |-> text]]
    /\ pc' = "done"
    /\ UNCHANGED <<dateVars, request, applicant, policy, now, input, checkDigit, calculated, checkValid>>

NextVerify == Post \/ OcrRejects \/ OcrResolves

SpecVerify == InitVerify /\ [][NextVerify]_vars

\* the handler's overall confidence (route.ts, "Calculate overall confidence")

InitConfidence ==
    /\ pc = "call"
    /\ doc \in ScoredDocuments
    /\ applicant = Undefined
    /\ policy = Undefined
    /\ now = InvalidDate
    /\ validationChecks = <<>>
    /\ IdleRecommend /\ IdleMRZ /\ IdleCheckDigit /\ IdleDate /\ IdleOcr /\ IdleHttp

Confidence ==
    /\ pc = "call"
    /\ overallConfidence' = meanConfidence(doc)
    /\ pc' = "done"
    /\ UNCHANGED <<dateVars, ocrVars, httpVars, validationChecks, eligibility, recommendations, doc, applicant,
                   policy, now, mrzLines, mrzData, input, checkDigit, calculated, checkValid>>

NextConfidence == Confidence

SpecConfidence == InitConfidence /\ [][NextConfidence]_vars

-----------------------------------------------------------------------------
(* Properties *)

\* the elements of a sequence
Range(seq) == {seq[i] : i \in 1..Len(seq)}

\* whether some check of the sequence has the status
AnyStatus(checks, status) == \E i \in 1..Len(checks) : checks[i].status = status

\* one line per check of the status, in check order
RECURSIVE LinesFor(_, _, _)
LinesFor(checks, status, prefix) ==
    IF checks = <<>> THEN <<>>
    ELSE (IF Head(checks).status = status
          THEN <<prefix \o Head(checks).field \o ": " \o Head(checks).message>>
          ELSE <<>>)
         \o LinesFor(Tail(checks), status, prefix)

\* the first line of each branch of the recommendation chain
BranchHeadlines ==
    {"REJECT: Critical validation failures detected",
     "REJECT: Applicant does not meet eligibility requirements",
     "MANUAL REVIEW: Low confidence in document extraction",
     "MANUAL REVIEW: Warnings detected",
     "APPROVE: All checks passed with high confidence",
     "MANUAL REVIEW: Standard verification recommended"}

\* C1: generateRecommendations returns the actions of the first matching branch
\* only, in the priority order failures, ineligible, confidence < 70, warnings,
\* confidence >= 90, standard review; the failure and warning branches list one
\* line per such check in check order; exactly one branch headline appears.
C1_PriorityChain ==
    pc = "done" =>
      LET fail == AnyStatus(validationChecks, "fail")
          warn == AnyStatus(validationChecks, "warning")
          ok == eligibility.eligible
          c == overallConfidence
          r == recommendations
      IN /\ fail =>
              r = <<"REJECT: Critical validation failures detected">>
                    \o LinesFor(validationChecks, "fail", "- Address ")
         /\ ~fail /\ ~ok =>
              r = <<"REJECT: Applicant does not meet eligibility requirements",
                    "- " \o eligibility.reason>>
         /\ ~fail /\ ok /\ c < 70 =>
              r = <<"MANUAL REVIEW: Low confidence in document extraction",
                    "- Request higher quality document scan",
                    "- Verify extracted information manually">>
         /\ ~fail /\ ok /\ c >= 70 /\ warn =>
              r = <<"MANUAL REVIEW: Warnings detected">>
                    \o LinesFor(validationChecks, "warning", "- Review ")
         /\ ~fail /\ ok /\ c >= 90 /\ ~warn =>
              r = <<"APPROVE: All checks passed with high confidence",
                    "- Proceed with visa application processing">>
         /\ ~fail /\ ok /\ c >= 70 /\ c < 90 /\ ~warn =>
              r = <<"MANUAL REVIEW: Standard verification recommended",
                    "- Verify key details before approval">>
         /\ Cardinality(BranchHeadlines \cap Range(r)) = 1

\* C1 witness: a failing expiryDate check beside a warning, an eligible
\* applicant and high confidence: only the rejection is returned
C1_Witness ==
    /\ pc = "done"
    /\ \E i \in 1..Len(validationChecks) :
         validationChecks[i].status = "fail" /\ validationChecks[i].field = "expiryDate"
    /\ AnyStatus(validationChecks, "warning")
    /\ eligibility.eligible
    /\ overallConfidence >= 90
    /\ recommendations = <<"REJECT: Critical validation failures detected",
                           "- Address expiryDate: Document has expired">>

StartsWith(s, prefix) == Len(s) >= Len(prefix) /\ SubSeq(s, 1, Len(prefix)) = prefix

EndsWith(s, suffix) ==
    Len(s) >= Len(suffix) /\ SubSeq(s, Len(s) - Len(suffix) + 1, Len(s)) = suffix

\* the issues separated by "; ", built from the left
RECURSIVE JoinedIssues(_)
JoinedIssues(issues) ==
    IF Len(issues) = 0 THEN ""
    ELSE IF Len(issues) = 1 THEN issues[1]
    ELSE JoinedIssues(SubSeq(issues, 1, Len(issues) - 1)) \o "; " \o issues[Len(issues)]

\* the evaluation step an issue string comes from: 1 passport validity,
\* 2 nationality lists, 3 minimum age (or unverifiable age), 4 maximum age,
\* 5 passport-number mismatch
IssueStep(issue) ==
    IF StartsWith(issue, "Passport must be valid") \/ issue = "Cannot verify passport validity period"
    THEN 1
    ELSE IF StartsWith(issue, "Nationality ") THEN 2
    ELSE IF StartsWith(issue, "Applicant must be at least") \/ issue = "Cannot verify age requirements"
    THEN 3
    ELSE IF StartsWith(issue, "Applicant must be under") THEN 4
    ELSE IF issue = "Passport number does not match application" THEN 5
    ELSE 0

\* both passport numbers present and different
NumbersDiffer ==
    /\ applicant.passportNumber # ""
    /\ doc.documentNumber.value # ""
    /\ applicant.passportNumber # doc.documentNumber.value

\* C2: checkEligibility reports eligible exactly when no issue was accumulated;
\* the reason is the fixed success message when eligible and the issues joined
\* with "; " in evaluation order otherwise; the passport-number mismatch issue
\* is present exactly when both numbers are non-empty and differ.
C2_EligibleIffNoIssues ==
    pc = "done" =>
      LET issues == eligibilityIssues(doc, applicant, policy, now)
          mismatch == "Passport number does not match application"
      IN /\ eligibility.eligible <=> Len(issues) = 0
         /\ eligibility.eligible => eligibility.reason = "All eligibility requirements met"
         /\ ~eligibility.eligible => eligibility.reason = JoinedIssues(issues)
         /\ \A i \in 1..Len(issues) : IssueStep(issues[i]) \in 1..5
         /\ \A i, j \in 1..Len(issues) : i < j => IssueStep(issues[i]) <= IssueStep(issues[j])
         /\ NumbersDiffer <=> mismatch \in Range(issues)
         /\ NumbersDiffer => ~eligibility.eligible /\ EndsWith(eligibility.reason, mismatch)
         /\ ~NumbersDiffer => ~EndsWith(eligibility.reason, mismatch)

\* C2 witness: a short-dated passport of a blocked nationality whose number
\* differs from the declared one: three issues joined in evaluation order
C2_Witness ==
    /\ pc = "done"
    /\ NumbersDiffer
    /\ ~eligibility.eligible
    /\ eligibility.reason =
         "Passport must be valid for at least 6 months; "
           \o "Nationality XXX is not eligible for tourist; "
           \o "Passport number does not match application"

\* the date k months after a date (day of month at most 27)
AddMonths(date, k) ==
    LET months == date.y * 12 + (date.m - 1) + k
    IN Date(months \div 12, (months % 12) + 1, date.d, date.t)

NotLater(a, b) == ~Earlier(b, a)

\* the number of whole months from one date to a later one
WholeMonthsBetween(from, to) ==
    LET most == (to.y - from.y + 1) * 12
    IN CHOOSE k \in 0..most :
         /\ NotLater(AddMonths(from, k), to)
         /\ \A j \in (k + 1)..most : ~NotLater(AddMonths(from, j), to)

\* whole months from t until the expiry date; negative once a whole month has
\* passed since expiry
WholeMonthsUntil(t, expiry) ==
    IF NotLater(t, expiry) THEN WholeMonthsBetween(t, expiry)
    ELSE 0 - WholeMonthsBetween(expiry, t)

ValidityIssue ==
    "Passport must be valid for at least " \o ToString(policy.minPassportValidity) \o " months"

ExpiryParseable == doc.expiryDate.value # "" /\ parseISO(doc.expiryDate.value).valid

\* C3: for a parseable expiry date, the issue "Passport must be valid for at
\* least N months" is reported exactly when fewer than N whole months remain
\* until expiry, and such a document is never reported eligible.
C3_ValidityWindow ==
    pc = "done" /\ ExpiryParseable =>
      LET months == WholeMonthsUntil(now, parseISO(doc.expiryDate.value))
          short == months < policy.minPassportValidity
      IN /\ short <=> Includes(eligibility.reason, ValidityIssue)
         /\ short => ~eligibility.eligible

\* C3 witness: the passport expires six calendar months ahead but a few hours
\* short of six whole months, the policy asks for 6, and that is the only issue
C3_Witness ==
    /\ pc = "done"
    /\ doc.expiryDate.value = "2027-05-03"
    /\ now = Date(2026, 11, 3, 1)
    /\ policy.minPassportValidity = 6
    /\ ~eligibility.eligible
    /\ eligibility.reason = "Passport must be valid for at least 6 months"

\* the number of places where sub occurs in s
Occurrences(s, sub) ==
    Cardinality({i \in 1..(Len(s) - Len(sub) + 1) : SubSeq(s, i, i + Len(sub) - 1) = sub})

\* the allow-list is configured, non-empty and lacks the document's nationality
NotAllowed ==
    /\ ~IsUndefined(policy.allowedNationalities)
    /\ policy.allowedNationalities.items # <<>>
    /\ doc.nationality.value \notin Range(policy.allowedNationalities.items)

\* the block-list is configured and holds the document's nationality
Blocked ==
    /\ ~IsUndefined(policy.blockedNationalities)
    /\ doc.nationality.value \in Range(policy.blockedNationalities.items)

NationalityIssue ==
    "Nationality " \o doc.nationality.value \o " is not eligible for " \o applicant.visaType

\* C4: the allow-list rule and the block-list rule each add their own issue
\* "Nationality <nat> is not eligible for <visaType>", independently of one
\* another, and a document of a blocked nationality is never eligible.
C4_NationalityRules ==
    pc = "done" =>
      /\ Occurrences(eligibility.reason, NationalityIssue)
           = (IF NotAllowed THEN 1 ELSE 0) + (IF Blocked THEN 1 ELSE 0)
      /\ Blocked => ~eligibility.eligible
      /\ NotAllowed => ~eligibility.eligible

\* C4 witness: nationality XXX is on the block-list and missing from the
\* allow-list, the passport is valid for 12 months: the issue is reported twice
C4_Witness ==
    /\ pc = "done"
    /\ doc.nationality.value = "XXX"
    /\ policy.minPassportValidity = 6
    /\ doc.expiryDate.value = "2027-11-20"
    /\ NotAllowed /\ Blocked
    /\ ~eligibility.eligible
    /\ eligibility.reason = "Nationality XXX is not eligible for tourist; "
                              \o "Nationality XXX is not eligible for tourist"

\* the place of each check in the validation order
FieldOrder ==
    <<"documentNumber", "expiryDate", "dateOfBirth", "name", "nationality",
      "mrzChecksum", "documentNumberMatch", "nameMatch">>

FieldRank(f) == CHOOSE k \in 1..Len(FieldOrder) : FieldOrder[k] = f

\* whether the document triggers the check of a field
Triggered(f) ==
    LET mrz == ~IsUndefined(doc.mrzData)
    IN CASE f = "documentNumber" -> doc.documentNumber.value # ""
         [] f = "expiryDate" -> doc.expiryDate.value # ""
         [] f = "dateOfBirth" -> doc.dateOfBirth.value # ""
         [] f = "name" -> doc.firstName.value # "" /\ doc.lastName.value # ""
         [] f = "nationality" -> doc.nationality.value # ""
         [] f = "mrzChecksum" -> mrz
         [] f = "documentNumberMatch" ->
              mrz /\ doc.documentNumber.value # "" /\ doc.mrzData.documentNumber.value # ""
         [] f = "nameMatch" ->
              mrz /\ doc.lastName.value # "" /\ doc.mrzData.lastName.value # ""

\* every field of the document and of its MRZ record that triggers a check is there
AllPopulated == \A k \in 1..Len(FieldOrder) : Triggered(FieldOrder[k])

\* C5: validateDocument emits its checks in the order documentNumber,
\* expiryDate (with at most one further expiryDate warning right after it),
\* dateOfBirth, name, nationality, mrzChecksum, documentNumberMatch, nameMatch,
\* each present exactly when its triggering fields are non-empty (the MRZ checks
\* only with an MRZ record); with everything populated the sequence starts with
\* documentNumber and ends with the three MRZ checks in that order.
C5_ValidationOrder ==
    pc = "done" =>
      LET checks == validationChecks
          n == Len(checks)
      IN /\ \A i \in 1..n : checks[i].field \in Range(FieldOrder)
         /\ \A k \in 1..Len(FieldOrder) :
              Triggered(FieldOrder[k]) <=> \E i \in 1..n : checks[i].field = FieldOrder[k]
         /\ \A i \in 1..(n - 1) :
              \/ FieldRank(checks[i].field) < FieldRank(checks[i + 1].field)
              \/ /\ checks[i].field = "expiryDate" /\ checks[i + 1].field = "expiryDate"
                 /\ checks[i + 1].status = "warning"
                 /\ i = 1 \/ checks[i - 1].field # "expiryDate"
         /\ AllPopulated =>
              /\ checks[1].field = "documentNumber"
              /\ checks[n - 2].field = "mrzChecksum"
              /\ checks[n - 1].field = "documentNumberMatch"
              /\ checks[n].field = "nameMatch"

\* C5 witness: every field populated, an MRZ record present and the expiry
\* warning emitted: nine checks
C5_Witness ==
    /\ pc = "done"
    /\ AllPopulated
    /\ Len(validationChecks) = 9
    /\ validationChecks[3].field = "expiryDate" /\ validationChecks[3].status = "warning"
    /\ validationChecks[9].field = "nameMatch"

\* the checks validateDocument emitted for a field
ChecksOf(f) == SelectSeq(validationChecks, LAMBDA c : c.field = f)

Unparseable(value) == value # "" /\ ~parseISO(value).valid

\* C6: a non-empty expiryDate or dateOfBirth that cannot be parsed yields a fail
\* check with confidence 50 and the fixed message, and never a pass check; the
\* expiryDate check is pass iff the date is parseable and not in the past, the
\* dateOfBirth check is pass iff the date is parseable and the age is in 0..120.
C6_UnparseableDateFails ==
    pc = "done" =>
      LET expiry == parseISO(doc.expiryDate.value)
          dob == parseISO(doc.dateOfBirth.value)
          age == differenceInYears(now, dob)
      IN /\ Unparseable(doc.expiryDate.value) =>
              /\ Check("expiryDate", "fail", "Invalid expiry date format", 50)
                   \in Range(validationChecks)
              /\ \A i \in 1..Len(ChecksOf("expiryDate")) :
                   ChecksOf("expiryDate")[i].status # "pass"
         /\ Unparseable(doc.dateOfBirth.value) =>
              /\ Check("dateOfBirth", "fail", "Invalid date of birth format", 50)
                   \in Range(validationChecks)
              /\ \A i \in 1..Len(ChecksOf("dateOfBirth")) :
                   ChecksOf("dateOfBirth")[i].status # "pass"
         /\ doc.expiryDate.value # "" =>
              (ChecksOf("expiryDate")[1].status = "pass"
                 <=> expiry.valid /\ ~Earlier(expiry, now))
         /\ doc.dateOfBirth.value # "" =>
              (ChecksOf("dateOfBirth")[1].status = "pass"
                 <=> dob.valid /\ age.n >= 0 /\ age.n <= 120)

\* C7: an expiry date that cannot be parsed adds the issue "Cannot verify
\* passport validity period", a date of birth that cannot be parsed adds
\* "Cannot verify age requirements"; the result is then ineligible, and the
\* remaining rules are still evaluated.
C7_UnparseableDateIssue ==
    pc = "done" =>
      /\ Unparseable(doc.expiryDate.value) =>
           /\ Includes(eligibility.reason, "Cannot verify passport validity period")
           /\ ~eligibility.eligible
      /\ Unparseable(doc.dateOfBirth.value) =>
           /\ Includes(eligibility.reason, "Cannot verify age requirements")
           /\ ~eligibility.eligible
      /\ NumbersDiffer =>
           Includes(eligibility.reason, "Passport number does not match application")

\* C8: parseMRZ takes the TD3 path exactly when handed exactly 2 lines, both of
\* length 44, the TD1 path exactly when handed exactly 3 lines the first of
\* which has length 30, and returns null for every other input.
C8_LayoutSelection ==
    pc # "call" =>
      LET td3 == Len(mrzLines) = 2 /\ Len(mrzLines[1]) = 44 /\ Len(mrzLines[2]) = 44
          td1 == Len(mrzLines) = 3 /\ Len(mrzLines[1]) = 30
      IN /\ pc = "TD3" <=> td3
         /\ pc = "TD1" <=> td1
         /\ ~td3 /\ ~td1 => pc = "null" /\ mrzData = Undefined

\* the value of a character in the check-digit sum: its place among the digits
\* and letters, 0 for the fill character
CheckCharacters == "0123456789ABCDEFGHIJKLMNOPQRSTUVWXYZ"

CharacterValue(c) ==
    IF c = "<" THEN 0
    ELSE (CHOOSE k \in 1..Len(CheckCharacters) : CharAt(CheckCharacters, k) = c) - 1

\* the weighted sum of a string whose first character takes the k-th weight of 7, 3, 1
RECURSIVE WeightedTotal(_, _)
WeightedTotal(s, k) ==
    IF Len(s) = 0 THEN 0
    ELSE CharacterValue(CharAt(s, 1)) * <<7, 3, 1>>[k]
           + WeightedTotal(SubSeq(s, 2, Len(s)), (k % 3) + 1)

ExpectedCheckDigit(s) == WeightedTotal(s, 1) % 10

\* the check character is the one digit the data calls for
DigitValidates(s, c) == c \in Digits /\ c = ToString(ExpectedCheckDigit(s))

\* C9: calculateCheckDigit returns the sum of value * weight (weights 7, 3, 1
\* cycling, "<" 0, digits their value, letters A=10 .. Z=35) modulo 10, and
\* validateCheckDigit is true exactly for the single digit equal to it ("7" for
\* "123456789").
C9_CheckDigit ==
    /\ pc \in {"calculated", "done"} =>
         /\ calculated = ExpectedCheckDigit(input)
         /\ input = "123456789" => calculated = 7
    /\ pc = "done" =>
         /\ checkValid <=> DigitValidates(input, checkDigit)
         /\ input = "123456789" => (checkValid <=> checkDigit = "7")

\* C9 witness: "123456789" validated against "7"
C9_Witness ==
    /\ pc = "done"
    /\ input = "123456789"
    /\ checkDigit = "7"
    /\ calculated = 7
    /\ checkValid

\* C10: checksumValid of a decoded record is true exactly when the check digits
\* of the document number, the date of birth and the expiry date validate
\* against their fields as laid out; nothing else of the record, the
\* personal-number check digit included, bears on it.
C10_ChecksumValid ==
    /\ pc = "TD3" =>
         LET line2 == mrzLines[2]
         IN mrzData.checksumValid <=>
              /\ DigitValidates(Substring(line2, 0, 9), Substring(line2, 9, 10))
              /\ DigitValidates(Substring(line2, 13, 19), Substring(line2, 19, 20))
              /\ DigitValidates(Substring(line2, 21, 27), Substring(line2, 27, 28))
    /\ pc = "TD1" =>
         LET line1 == mrzLines[1]
             line2 == mrzLines[2]
         IN mrzData.checksumValid <=>
              /\ DigitValidates(Substring(line1, 5, 14), Substring(line1, 14, 15))
              /\ DigitValidates(Substring(line2, 0, 6), Substring(line2, 6, 7))
              /\ DigitValidates(Substring(line2, 8, 14), Substring(line2, 14, 15))

\* C10 witness: a TD3 record whose personal-number check digit is wrong and
\* whose three other check digits are right decodes with checksumValid true
C10_Witness ==
    /\ pc = "TD3"
    /\ Len(mrzLines) = 2
    /\ Substring(mrzLines[2], 42, 43) = "9"
    /\ ~DigitValidates(Substring(mrzLines[2], 28, 42), Substring(mrzLines[2], 42, 43))
    /\ mrzData.checksumValid

\* the fields of an MRZData other than personalNumber
MRZFieldNames ==
    {"documentType", "issuingCountry", "lastName", "firstName", "documentNumber",
     "nationality", "dateOfBirth", "sex", "expiryDate"}

\* C11: in every record parseMRZ returns, each field other than personalNumber
\* has confidence 95 when checksumValid and 70 otherwise; personalNumber has
\* that confidence when its value is non-empty and 0 when it is empty, and in a
\* TD1 record it is always empty with confidence 0.
C11_FieldConfidence ==
    pc \in {"TD3", "TD1"} =>
      LET confidence == IF mrzData.checksumValid THEN 95 ELSE 70
      IN /\ \A f \in MRZFieldNames : mrzData[f].confidence = confidence
         /\ mrzData.personalNumber.value # "" => mrzData.personalNumber.confidence = confidence
         /\ mrzData.personalNumber.value = "" => mrzData.personalNumber.confidence = 0
         /\ pc = "TD1" => mrzData.personalNumber = Field("", 0)

\* C11 witness: a TD3 record without personal number whose checksums hold:
\* confidence 95 everywhere but 0 on the personal number
C11_Witness ==
    /\ pc = "TD3"
    /\ mrzData.checksumValid
    /\ mrzData.documentNumber = Field("L898902C3", 95)
    /\ mrzData.personalNumber = Field("", 0)

\* the number a two-digit string writes
TwoDigitValue(s) == CHOOSE n \in 0..99 : TwoDigits(n) = s

\* whether the string is six decimal digits
IsYYMMDD(s) == Len(s) = 6 /\ \A i \in 1..6 : \E n \in 0..9 : ToString(n) = SubSeq(s, i, i)

\* C13: parseDate maps a six-digit YYMMDD string to 'YYYY-MM-DD' with the
\* input's MM and DD and the year 2000+YY when YY <= 40 and 1900+YY when
\* YY > 40, a year in 1941..2040; every string whose length is not 6 maps to ''.
C13_ParseDate ==
    pc = "done" =>
      /\ IsYYMMDD(dateArg) =>
           LET yy == TwoDigitValue(SubSeq(dateArg, 1, 2))
               year == IF yy <= 40 THEN 2000 + yy ELSE 1900 + yy
           IN /\ isoDate = ToString(year) \o "-" \o SubSeq(dateArg, 3, 4) \o "-" \o SubSeq(dateArg, 5, 6)
              /\ \E y \in 1941..2040 : SubSeq(isoDate, 1, 4) = ToString(y)
      /\ Len(dateArg) # 6 => isoDate = ""

\* C13 witness: the pivot year 40 lands in 2040
C13_Witness ==
    /\ pc = "done"
    /\ dateArg = "400812"
    /\ isoDate = "2040-08-12"

\* whole years from the date of birth to the reference date, negative for a
\* date of birth still to come
WholeYearsSince(t, birth) ==
    IF NotLater(birth, t) THEN WholeMonthsBetween(birth, t) \div 12
    ELSE 0 - (WholeMonthsBetween(t, birth) \div 12)

\* whether the date-of-birth value is a calendar date
BirthParseable == doc.dateOfBirth.value # "" /\ parseISO(doc.dateOfBirth.value).valid

\* C16: for a parseable date of birth, every configured minAge (0 included)
\* above the age adds 'Applicant must be at least <minAge> years old' and every
\* configured maxAge (0 included) below the age adds 'Applicant must be under
\* <maxAge> years old', each bound on its own.
C16_AgeBounds ==
    (pc = "done" /\ BirthParseable) =>
      LET age == WholeYearsSince(now, parseISO(doc.dateOfBirth.value))
      IN /\ (~IsUndefined(policy.minAge) /\ age < policy.minAge.n)
              => Includes(eligibility.reason, "Applicant must be at least " \o ToString(policy.minAge.n) \o " years old")
         /\ (~IsUndefined(policy.maxAge) /\ age > policy.maxAge.n)
              => Includes(eligibility.reason, "Applicant must be under " \o ToString(policy.maxAge.n) \o " years old")

\* the positions of the expiryDate checks in the emitted list
ExpiryPositions == {i \in 1..Len(validationChecks) : validationChecks[i].field = "expiryDate"}

\* C19: for a parseable expiry date that is not in the past a pass check for
\* expiryDate is always emitted, immediately followed by a second expiryDate
\* check with status warning and message 'Document expires in <m> months'
\* exactly when fewer than 6 whole months remain; an expired document gets
\* exactly one expiryDate check, a fail, and no warning.
C19_ExpiryWarning ==
    (pc = "done" /\ ExpiryParseable) =>
      LET expiry == parseISO(doc.expiryDate.value)
          months == WholeMonthsUntil(now, expiry)
          checks == ChecksOf("expiryDate")
      IN IF NotLater(now, expiry)
         THEN /\ Len(checks) = (IF months < 6 THEN 2 ELSE 1)
              /\ checks[1].status = "pass"
              /\ months < 6 =>
                   /\ checks[2].status = "warning"
                   /\ checks[2].message = "Document expires in " \o ToString(months) \o " months"
                   /\ \E i \in ExpiryPositions : ExpiryPositions = {i, i + 1}
         ELSE /\ Len(checks) = 1
              /\ checks[1].status = "fail"

\* C19 witness: five whole months remain; pass and warning stand side by side
C19_Witness ==
    /\ pc = "done"
    /\ doc.expiryDate.value = "2027-05-03"
    /\ now = Date(2026, 11, 3, 1)
    /\ Len(ChecksOf("expiryDate")) = 2
    /\ ChecksOf("expiryDate")[1].status = "pass"
    /\ ChecksOf("expiryDate")[2].message = "Document expires in 5 months"

\* the place of a character in the alphabet, whatever its case; 0 for a
\* character that is not a letter
LetterIndex(c) ==
    IF \E i \in 1..26 : c \in {SubSeq(UpperLetters, i, i), SubSeq(LowerLetters, i, i)}
    THEN CHOOSE i \in 1..26 : c \in {SubSeq(UpperLetters, i, i), SubSeq(LowerLetters, i, i)}
    ELSE 0

\* the letters of a string, case dropped, as alphabet places
LettersOf(s) ==
    SelectSeq([i \in 1..Len(s) |-> LetterIndex(SubSeq(s, i, i))], LAMBDA n : n # 0)

\* whether the shorter sequence occurs in the longer one as a contiguous run
OccursIn(longer, shorter) ==
    \E k \in 0..(Len(longer) - Len(shorter)) : SubSeq(longer, k + 1, k + Len(shorter)) = shorter

\* the similarity the claim describes, as numerator and denominator
ExpectedSimilarity(a, b) ==
    LET x == LettersOf(a)
        y == LettersOf(b)
        longer == IF Len(x) >= Len(y) THEN x ELSE y
        shorter == IF Len(x) >= Len(y) THEN y ELSE x
    IN IF x = y THEN <<1, 1>>
       ELSE IF OccursIn(longer, shorter) THEN <<9, 10>>
       ELSE <<Cardinality({i \in 1..Len(shorter) : longer[i] = shorter[i]}), Len(longer)>>

\* the integer nearest to 100 * num / den, halves upward
RoundedPercent(q) == CHOOSE r \in 0..100 : 2 * q[2] * r <= 200 * q[1] + q[2] /\ 200 * q[1] + q[2] < 2 * q[2] * (r + 1)

\* C20: compareStrings, on the strings lower-cased and stripped of non-letters,
\* is 1.0 for equal strings, 0.9 when the longer contains the shorter, and
\* otherwise the number of equal leading positions over the longer length;
\* nameMatch is emitted only when the document's and the MRZ's last names are
\* both non-empty, is pass iff the similarity exceeds 0.8 and warning otherwise,
\* never fail, with confidence round(similarity * 100).
C20_NameMatch ==
    pc = "done" =>
      LET names == ChecksOf("nameMatch")
          both == HasMRZ(doc) /\ doc.lastName.value # "" /\ doc.mrzData.lastName.value # ""
      IN /\ Len(names) = (IF both THEN 1 ELSE 0)
         /\ both =>
              LET q == ExpectedSimilarity(doc.lastName.value, doc.mrzData.lastName.value)
                  sim == compareStrings(doc.lastName.value, doc.mrzData.lastName.value)
              IN /\ sim.num * q[2] = q[1] * sim.den
                 /\ names[1].status = (IF 10 * q[1] > 8 * q[2] THEN "pass" ELSE "warning")
                 /\ names[1].confidence = RoundedPercent(q)

\* C20 witness: seven of eight positions agree, 0.875: pass with confidence 88
C20_Witness ==
    /\ pc = "done"
    /\ HasMRZ(doc)
    /\ doc.lastName.value = "Erikssen"
    /\ doc.mrzData.lastName.value = "ERIKSSON"
    /\ ChecksOf("nameMatch") = <<Check("nameMatch", "pass", "Names match MRZ", 88)>>

\* the handler answered with a VerificationResult
Verified == pc = "done" /\ response.status = 200

\* the fields of an ExtractedDocument
DocumentFieldNames == MRZFieldNames \cup {"issueDate", "placeOfBirth"}

\* confidence 0 exactly for the empty value
ZeroIffEmpty(field) == field.confidence = 0 <=> field.value = ""

\* C12: every ExtractedField a producer makes, and so every field of the
\* document analyzeDocument builds and of its MRZ record, has confidence 0 if
\* and only if its value is the empty string.
C12_ZeroIffEmpty ==
    Verified =>
      /\ \A f \in DocumentFieldNames : ZeroIffEmpty(doc[f])
      /\ ~IsUndefined(doc.mrzData) =>
           \A f \in MRZFieldNames \cup {"personalNumber"} : ZeroIffEmpty(doc.mrzData[f])

\* what free-text extraction alone yields for a field of the recognised text
FreeTextField(f) ==
    IF f = "documentType" THEN extractDocumentType(ocrText)
    ELSE IF f \in {"dateOfBirth", "issueDate", "expiryDate"} THEN extractDateField(captures[f])
    ELSE extractFieldFromText(captures[f])

\* C18: each of the nine merged fields is the MRZ field when an MRZ record was
\* decoded and that field's value is non-empty, and the free-text result
\* otherwise, also when the record exists but the field is empty; issueDate and
\* placeOfBirth are always the free-text results.
C18_MergePerField ==
    Verified =>
      /\ \A f \in MRZFieldNames :
           doc[f] = IF ~IsUndefined(doc.mrzData) /\ doc.mrzData[f].value # ""
                    THEN doc.mrzData[f]
                    ELSE FreeTextField(f)
      /\ doc.issueDate = FreeTextField("issueDate")
      /\ doc.placeOfBirth = FreeTextField("placeOfBirth")

\* C14 as stated: every eligibility result, that of every VerificationResult
\* the handler returns included, has confidence 95 when eligible and 85 when
\* not.
C14_AlwaysCoarseConstant ==
    Verified =>
      response.body.eligibility.confidence = (IF response.body.eligibility.eligible THEN 95 ELSE 85)

\* the request carries both applicant data and a policy
PolicySupplied == ~IsUndefined(request.applicantData) /\ ~IsUndefined(request.eligibilityPolicy)

\* C14 amended: when the request carries applicant data and a policy the
\* returned eligibility is checkEligibility's, with confidence 95 when eligible
\* and 85 when not, whatever the issues; otherwise it is the default result:
\* eligible, 'No eligibility policy provided', confidence 100.
C14_EligibilityConfidence ==
    Verified =>
      LET result == response.body.eligibility
      IN IF PolicySupplied
         THEN /\ result.confidence = (IF result.eligible THEN 95 ELSE 85)
              /\ result.reason # "No eligibility policy provided"
         ELSE result = [eligible |-> TRUE, reason |-> "No eligibility policy provided",
                        confidence |-> 100]

\* C14 witness: a request with a policy, refused for two reasons, confidence 85
C14_Witness ==
    /\ Verified
    /\ PolicySupplied
    /\ ~response.body.eligibility.eligible
    /\ Includes(response.body.eligibility.reason, "; ")
    /\ response.body.eligibility.confidence = 85

\* the six fields the overall confidence is taken over
ScoredFieldNames ==
    {"documentNumber", "firstName", "lastName", "dateOfBirth", "expiryDate", "nationality"}

\* the sum of the confidences of the document's fields named in the set
RECURSIVE ConfidenceTotal(_)
ConfidenceTotal(names) ==
    IF names = {} THEN 0
    ELSE LET f == CHOOSE g \in names : TRUE
         IN doc[f].confidence + ConfidenceTotal(names \ {f})

\* C15: overallConfidence is the arithmetic mean, rounded to the nearest
\* integer, of the confidences above 0 among documentNumber, firstName,
\* lastName, dateOfBirth, expiryDate and nationality, and 50 when all six are
\* 0; for confidences in 0..100 it is an integer in 0..100.
C15_OverallConfidence ==
    pc = "done" =>
      LET counted == {f \in ScoredFieldNames : doc[f].confidence > 0}
          n == Cardinality(counted)
          total == ConfidenceTotal(counted)
      IN /\ overallConfidence \in 0..100
         /\ n = 0 => overallConfidence = 50
         /\ n > 0 => /\ 2 * n * overallConfidence <= 2 * total + n
                     /\ 2 * total + n < 2 * n * (overallConfidence + 1)

\* C15 witness: 75 and 70 with four zeros: the mean 72.5 is rounded to 73
C15_Witness ==
    /\ pc = "done"
    /\ doc.documentNumber.confidence = 75
    /\ doc.firstName.confidence = 70
    /\ \A f \in ScoredFieldNames \ {"documentNumber", "firstName"} : doc[f].confidence = 0
    /\ overallConfidence = 73

\* the functions of the validation, eligibility and recommendation core
CoreCalls == {"validateDocument", "checkEligibility", "generateSummary", "generateRecommendations"}

\* the core functions the handler has invoked so far
CoreInvoked == {invoked[i] : i \in 1..Len(invoked)} \cap CoreCalls

DecisionPrefixes == {"REJECT", "MANUAL REVIEW", "APPROVE"}

\* C21: for every combination of validation checks, eligibility result and
\* overall confidence, generateRecommendations returns a non-empty list whose
\* first entry starts with exactly one of REJECT, MANUAL REVIEW and APPROVE,
\* and an entry that starts with APPROVE is there only when no check has
\* status fail, none has status warning, the applicant is eligible and the
\* overall confidence is at least 90.
C21_DecisionHeadline ==
    pc = "done" =>
        /\ Len(recommendations) > 0
        /\ Cardinality({p \in DecisionPrefixes : StartsWith(recommendations[1], p)}) = 1
        /\ \A i \in 1..Len(recommendations) :
             StartsWith(recommendations[i], "APPROVE") =>
                 /\ ~AnyStatus(validationChecks, "fail")
                 /\ ~AnyStatus(validationChecks, "warning")
                 /\ eligibility.eligible
                 /\ overallConfidence >= 90

\* an approval at the lowest confidence that allows one, over checks that all passed
C21_Witness ==
    /\ pc = "done"
    /\ Len(validationChecks) > 0
    /\ \A i \in 1..Len(validationChecks) : validationChecks[i].status = "pass"
    /\ eligibility.eligible
    /\ overallConfidence = 90
    /\ StartsWith(recommendations[1], "APPROVE")

=============================================================================
